---- MODULE Spec2Model ----
(***************************************************************************)
(* Model of the HTTP JSON-RPC layer of the Indian Stock Exchange MCP       *)
(* server (src/ise_mcp/server.py): one POST /jsonrpc exchange goes through *)
(* cors_middleware and JSONRPCHandler.handle_jsonrpc, which may suspend    *)
(* once, at the upstream call made by handle_call_tool through             *)
(* ISEClient._make_request.                                                *)
(*                                                                         *)
(* A request body is Malformed when request.json() raises JSONDecodeError, *)
(* Unreadable when it raises anything else (bytes that cannot be decoded), *)
(* and otherwise the JSON value it returns.                                *)
(*                                                                         *)
(* JSON values are tagged records: the tag t keeps the JSON type, so that  *)
(* the string "1" and the number 1 differ. Numbers carry their lexeme.     *)
(* Objects carry their keys in insertion order (seq) and their mapping.    *)
(***************************************************************************)
EXTENDS Integers, Sequences, FiniteSets, TLC

VARIABLES
    pc, request, response, fetches, \* the exchange with one client
    other,                          \* the exchange with a second client
    logged_client,                  \* the client of the last "Initializing
                                    \* connection from ..." line of the log
    process,                        \* the server process: entry point, phase,
                                    \* exit status
    simple,                         \* a SimpleMCPClient
    mcp,                            \* an MCPClient with a stdio configuration
    manager                         \* an MCPClientManager and the clients it made

client_vars == <<simple, mcp, manager>>

vars == <<pc, request, response, fetches, other, logged_client, process,
          simple, mcp, manager>>

----------------------------------------------------------------------------
(* JSON values as Python sees them after json.loads                        *)

JNull == [t |-> "null"]
JStr(s) == [t |-> "str", v |-> s]
JNum(lexeme) == [t |-> "num", v |-> lexeme]
JList(items) == [t |-> "list", v |-> items]
JObj(keys, map) == [t |-> "obj", keys |-> keys, v |-> map]
Absent == [t |-> "absent"]
Malformed == [t |-> "malformed"]
Unreadable == [t |-> "unreadable"]

IsDict(x) == x.t = "obj"

\* the set of the elements of a sequence
Range(seq) == {seq[i] : i \in 1..Len(seq)}

\* an object from a sequence of <<key, value>> pairs, Absent values left out
RECURSIVE KeysOf(_)
KeysOf(pairs) ==
    IF pairs = <<>> THEN <<>>
    ELSE IF Head(pairs)[2] = Absent THEN KeysOf(Tail(pairs))
    ELSE <<Head(pairs)[1]>> \o KeysOf(Tail(pairs))

Obj(pairs) ==
    LET ks == KeysOf(pairs)
    IN JObj(ks, [k \in Range(ks) |->
                   pairs[CHOOSE i \in 1..Len(pairs) : pairs[i][1] = k][2]])

----------------------------------------------------------------------------
(* Python primitives used by the handlers                                  *)

\* dict.get(key, default)
PyGet(d, key, default) == IF key \in DOMAIN d.v THEN d.v[key] ELSE default

\* key in dict
PyIn(key, d) == key \in DOMAIN d.v

\* truth value of an object: `not x` is ~Truthy(x)
Truthy(x) ==
    CASE x.t = "null" -> FALSE
      [] x.t = "str"  -> x.v # ""
      [] x.t = "num"  -> x.v \notin {"0", "0.0"}
      [] x.t = "bool" -> x.v
      [] x.t = "list" -> x.v # <<>>
      [] x.t = "obj"  -> x.keys # <<>>
      [] OTHER        -> TRUE

\* type(x).__name__
PyTypeName(x) ==
    CASE x.t = "null" -> "NoneType"
      [] x.t = "str"  -> "str"
      [] x.t = "num"  -> "int"
      [] x.t = "bool" -> "bool"
      [] x.t = "list" -> "list"
      [] x.t = "obj"  -> "dict"

\* sub in s, for strings
Contains(s, sub) ==
    \E i \in 1..(Len(s) - Len(sub) + 1) : SubSeq(s, i, i + Len(sub) - 1) = sub

\* repr(x): strings quoted, None, dicts and lists rendered with ", " and ": "
RECURSIVE PyRepr(_), ReprItems(_, _), ReprList(_)
PyRepr(x) ==
    CASE x.t = "null" -> "None"
      [] x.t = "str"  -> "'" \o x.v \o "'"
      [] x.t = "num"  -> x.v
      [] x.t = "bool" -> IF x.v THEN "True" ELSE "False"
      [] x.t = "list" -> "[" \o ReprList(x.v) \o "]"
      [] x.t = "obj"  -> "{" \o ReprItems(x.keys, x.v) \o "}"

ReprItems(keys, map) ==
    IF keys = <<>> THEN ""
    ELSE "'" \o Head(keys) \o "': " \o PyRepr(map[Head(keys)])
         \o (IF Len(keys) > 1 THEN ", " ELSE "")
         \o ReprItems(Tail(keys), map)

ReprList(items) ==
    IF items = <<>> THEN ""
    ELSE PyRepr(Head(items)) \o (IF Len(items) > 1 THEN ", " ELSE "")
         \o ReprList(Tail(items))

\* str(x): a string is itself, anything else is its repr
PyStr(x) == IF x.t = "str" THEN x.v ELSE PyRepr(x)

\* f"... has no attribute 'get'": calling .get on something that is no dict
NoGetMessage(x) == "'" \o PyTypeName(x) \o "' object has no attribute 'get'"

\* x[key] on something that is no dict
SubscriptMessage(x) ==
    CASE x.t = "str"  -> "string indices must be integers"
      [] x.t = "list" -> "list indices must be integers or slices, not str"
      [] OTHER        -> "'" \o PyTypeName(x) \o "' object is not subscriptable"

----------------------------------------------------------------------------
(* json.dumps(data, indent=2, ensure_ascii=False)                          *)

RECURSIVE Spaces(_)
Spaces(n) == IF n = 0 THEN "" ELSE " " \o Spaces(n - 1)

RECURSIVE JsonDumpsIndent(_, _), DumpItems(_, _, _), DumpList(_, _)
JsonDumpsIndent(x, level) ==
    CASE x.t = "null" -> "null"
      [] x.t = "str"  -> "\"" \o x.v \o "\""
      [] x.t = "num"  -> x.v
      [] x.t = "bool" -> IF x.v THEN "true" ELSE "false"
      [] x.t = "list" ->
           IF x.v = <<>> THEN "[]"
           ELSE "[\n" \o DumpList(x.v, level + 1) \o "\n" \o Spaces(2 * level) \o "]"
      [] x.t = "obj"  ->
           IF x.keys = <<>> THEN "{}"
           ELSE "{\n" \o DumpItems(x.keys, x.v, level + 1) \o "\n"
                \o Spaces(2 * level) \o "}"

DumpItems(keys, map, level) ==
    IF keys = <<>> THEN ""
    ELSE Spaces(2 * level) \o "\"" \o Head(keys) \o "\": "
         \o JsonDumpsIndent(map[Head(keys)], level)
         \o (IF Len(keys) > 1 THEN ",\n" ELSE "")
         \o DumpItems(Tail(keys), map, level)

DumpList(items, level) ==
    IF items = <<>> THEN ""
    ELSE Spaces(2 * level) \o JsonDumpsIndent(Head(items), level)
         \o (IF Len(items) > 1 THEN ",\n" ELSE "")
         \o DumpList(Tail(items), level)

----------------------------------------------------------------------------
(* The tool catalog and handle_call_tool                                   *)

\* Tool(name=..., description=..., inputSchema={"type": "object",
\* "properties": {...}, "required": [...]}): the fields the source sets, the
\* schema by the names of its properties and its required list; the fields
\* the source leaves unset are None
Tool(name, description, properties, required) ==
    [name |-> name, description |-> description,
     inputSchema |-> [type |-> "object", properties |-> properties,
                      required |-> required],
     annotations |-> JNull]

\* handle_list_tools
HandleListTools ==
    <<
      Tool("get_stock_data",
           "Get detailed financial data for a specific company by name",
           <<"name">>,
           <<"name">>),
      Tool("search_industry",
           "Search for companies within a specific industry",
           <<"query">>,
           <<"query">>),
      Tool("search_mutual_funds",
           "Search for mutual funds",
           <<"query">>,
           <<"query">>),
      Tool("get_trending_stocks",
           "Get trending stocks with top gainers and losers",
           <<>>,
           <<>>),
      Tool("get_52_week_high_low",
           "Get stocks with highest and lowest prices in the last 52 weeks",
           <<>>,
           <<>>),
      Tool("get_nse_most_active",
           "Get most active stocks on NSE by trading volume",
           <<>>,
           <<>>),
      Tool("get_bse_most_active",
           "Get most active stocks on BSE by trading volume",
           <<>>,
           <<>>),
      Tool("get_mutual_funds",
           "Get latest mutual fund data with NAV and returns",
           <<>>,
           <<>>),
      Tool("get_price_shockers",
           "Get stocks with significant price changes",
           <<>>,
           <<>>),
      Tool("get_commodities",
           "Get real-time commodity futures data",
           <<>>,
           <<>>),
      Tool("get_analyst_recommendations",
           "Get analyst target prices and recommendations for a stock",
           <<"stock_id">>,
           <<"stock_id">>),
      Tool("get_stock_forecasts",
           "Get detailed forecast information for a stock",
           <<"stock_id", "measure_code", "period_type", "data_type", "age">>,
           <<"stock_id", "measure_code", "period_type", "data_type", "age">>),
      Tool("get_historical_data",
           "Get historical stock data with various filters",
           <<"stock_name", "period", "filter">>,
           <<"stock_name">>),
      Tool("get_historical_stats",
           "Get historical statistics for a stock",
           <<"stock_name", "stats">>,
           <<"stock_name", "stats">>)
    >>

\* the branch of handle_call_tool a name selects: its endpoint, the
\* arguments it reads with arguments[key] in the order it reads them, and the
\* ones it copies only when present
ToolBranches ==
    [ get_stock_data |->
        [endpoint |-> "/stock", reads |-> <<"name">>, optional |-> <<>>],
      search_industry |->
        [endpoint |-> "/industry_search", reads |-> <<"query">>, optional |-> <<>>],
      search_mutual_funds |->
        [endpoint |-> "/mutual_fund_search", reads |-> <<"query">>, optional |-> <<>>],
      get_trending_stocks |->
        [endpoint |-> "/trending", reads |-> <<>>, optional |-> <<>>],
      get_52_week_high_low |->
        [endpoint |-> "/fetch_52_week_high_low_data", reads |-> <<>>, optional |-> <<>>],
      get_nse_most_active |->
        [endpoint |-> "/NSE_most_active", reads |-> <<>>, optional |-> <<>>],
      get_bse_most_active |->
        [endpoint |-> "/BSE_most_active", reads |-> <<>>, optional |-> <<>>],
      get_mutual_funds |->
        [endpoint |-> "/mutual_funds", reads |-> <<>>, optional |-> <<>>],
      get_price_shockers |->
        [endpoint |-> "/price_shockers", reads |-> <<>>, optional |-> <<>>],
      get_commodities |->
        [endpoint |-> "/commodities", reads |-> <<>>, optional |-> <<>>],
      get_analyst_recommendations |->
        [endpoint |-> "/stock_target_price", reads |-> <<"stock_id">>, optional |-> <<>>],
      get_stock_forecasts |->
        [endpoint |-> "/stock_forecasts",
         reads |-> <<"stock_id", "measure_code", "period_type", "data_type", "age">>,
         optional |-> <<>>],
      get_historical_data |->
        [endpoint |-> "/historical_data", reads |-> <<"stock_name">>,
         optional |-> <<"period", "filter">>],
      get_historical_stats |->
        [endpoint |-> "/historical_stats", reads |-> <<"stock_name", "stats">>,
         optional |-> <<>>] ]

\* a chain of branches that has lost the one of get_commodities
HasBranch_NoCommodities(name) ==
    name.t = "str" /\ name.v \in (DOMAIN ToolBranches \ {"get_commodities"})

\* name == "<tool>" holds for one of the branches: name is that string
HasBranch(name) == name.t = "str" /\ name.v \in DOMAIN ToolBranches

\* the heading of the text a branch returns
ToolTitle(tool, arguments) ==
    CASE tool = "get_stock_data" ->
           "Stock Data for " \o PyStr(arguments.v["name"])
      [] tool = "search_industry" ->
           "Industry Search Results for '" \o PyStr(arguments.v["query"]) \o "'"
      [] tool = "search_mutual_funds" ->
           "Mutual Fund Search Results for '" \o PyStr(arguments.v["query"]) \o "'"
      [] tool = "get_trending_stocks" -> "Trending Stocks"
      [] tool = "get_52_week_high_low" -> "52 Week High/Low Data"
      [] tool = "get_nse_most_active" -> "NSE Most Active Stocks"
      [] tool = "get_bse_most_active" -> "BSE Most Active Stocks"
      [] tool = "get_mutual_funds" -> "Mutual Funds Data"
      [] tool = "get_price_shockers" -> "Price Shockers"
      [] tool = "get_commodities" -> "Commodity Futures Data"
      [] tool = "get_analyst_recommendations" ->
           "Analyst Recommendations for " \o PyStr(arguments.v["stock_id"])
      [] tool = "get_stock_forecasts" ->
           "Stock Forecasts for " \o PyStr(arguments.v["stock_id"])
      [] tool = "get_historical_data" ->
           "Historical Data for " \o PyStr(arguments.v["stock_name"])
      [] tool = "get_historical_stats" ->
           "Historical Stats (" \o PyStr(arguments.v["stats"]) \o ") for "
           \o PyStr(arguments.v["stock_name"])

\* [types.TextContent(type="text", text=...)]
TextContent(text) == << [type |-> "text", text |-> text] >>

\* the except clause of handle_call_tool, the tool's name left out
ToolErrorContent_NoName(name, message) ==
    TextContent("Error executing tool: " \o message)

\* the except clause of handle_call_tool
ToolErrorContent(name, message) ==
    TextContent("Error executing " \o PyStr(name) \o ": " \o message)

\* the first arguments[key] of a branch that raises, or "" when none does
FirstMissing(reads, arguments) ==
    IF \E i \in 1..Len(reads) : ~PyIn(reads[i], arguments)
    THEN reads[CHOOSE i \in 1..Len(reads) :
                 /\ ~PyIn(reads[i], arguments)
                 /\ \A j \in 1..(i - 1) : PyIn(reads[j], arguments)]
    ELSE ""

\* the params dict without the keys a branch copies when they are there
ToolParams_RequiredOnly(branch, arguments) ==
    [k \in {branch.reads[i] : i \in 1..Len(branch.reads)} |-> arguments.v[k]]

\* the params dict a branch hands to _make_request
ToolParams(branch, arguments) ==
    LET ks == {branch.reads[i] : i \in 1..Len(branch.reads)}
              \cup {k \in Range(branch.optional) : PyIn(k, arguments)}
    IN [k \in ks |-> arguments.v[k]]

\* handle_call_tool up to its await: the exception it catches before any
\* request is made, or the request it makes
CallToolStart(name, arguments) ==
    IF ~HasBranch(name)
    THEN [k |-> "raise", message |-> "Unknown tool: " \o PyStr(name)]
    ELSE LET branch == ToolBranches[name.v]
         IN IF branch.reads = <<>>
            THEN [k |-> "fetch", endpoint |-> branch.endpoint, params |-> <<>>]
            ELSE IF ~IsDict(arguments)
            THEN [k |-> "raise", message |-> SubscriptMessage(arguments)]
            ELSE IF FirstMissing(branch.reads, arguments) # ""
            THEN [k |-> "raise",
                  message |-> "'" \o FirstMissing(branch.reads, arguments) \o "'"]
            ELSE [k |-> "fetch", endpoint |-> branch.endpoint,
                  params |-> ToolParams(branch, arguments)]

\* ISEClient._make_request once the upstream has answered: the JSON it
\* returns, or the message of the Exception it raises
MakeRequestDone(outcome) ==
    CASE outcome.k = "json" -> [k |-> "return", data |-> outcome.data]
      [] outcome.k = "httperror" ->
           [k |-> "raise", message |-> "API request failed: " \o outcome.message]
      [] outcome.k = "other" ->
           [k |-> "raise", message |-> "Unexpected error: " \o outcome.message]

\* handle_call_tool from its await to its return, json.dumps without indent
CallToolFinish_NoIndent(name, arguments, outcome) ==
    LET r == MakeRequestDone(outcome)
    IN IF r.k = "raise"
       THEN ToolErrorContent(name, r.message)
       ELSE TextContent(ToolTitle(name.v, arguments) \o ":\n\n" \o PyRepr(r.data))

\* handle_call_tool from its await to its return
CallToolFinish(name, arguments, outcome) ==
    LET r == MakeRequestDone(outcome)
    IN IF r.k = "raise"
       THEN ToolErrorContent(name, r.message)
       ELSE TextContent(ToolTitle(name.v, arguments) \o ":\n\n"
                        \o JsonDumpsIndent(r.data, 0))

----------------------------------------------------------------------------
(* The stdio server (src/ise_mcp/stdio_server.py): its own handle_list_tools *)
(* and handle_call_tool, written out again in that file                      *)

\* stdio_server.py handle_list_tools
StdioHandleListTools ==
    <<
      Tool("get_stock_data",
           "Get detailed financial data for a specific company by name",
           <<"name">>,
           <<"name">>),
      Tool("search_industry",
           "Search for companies within a specific industry",
           <<"query">>,
           <<"query">>),
      Tool("search_mutual_funds",
           "Search for mutual funds",
           <<"query">>,
           <<"query">>),
      Tool("get_trending_stocks",
           "Get trending stocks with top gainers and losers",
           <<>>,
           <<>>),
      Tool("get_52_week_high_low",
           "Get stocks with highest and lowest prices in the last 52 weeks",
           <<>>,
           <<>>),
      Tool("get_nse_most_active",
           "Get most active stocks on NSE by trading volume",
           <<>>,
           <<>>),
      Tool("get_bse_most_active",
           "Get most active stocks on BSE by trading volume",
           <<>>,
           <<>>),
      Tool("get_mutual_funds",
           "Get latest mutual fund data with NAV and returns",
           <<>>,
           <<>>),
      Tool("get_price_shockers",
           "Get stocks with significant price changes",
           <<>>,
           <<>>),
      Tool("get_commodities",
           "Get real-time commodity futures data",
           <<>>,
           <<>>),
      Tool("get_analyst_recommendations",
           "Get analyst target prices and recommendations for a stock",
           <<"stock_id">>,
           <<"stock_id">>),
      Tool("get_stock_forecasts",
           "Get detailed forecast information for a stock",
           <<"stock_id", "measure_code", "period_type", "data_type", "age">>,
           <<"stock_id", "measure_code", "period_type", "data_type", "age">>),
      Tool("get_historical_data",
           "Get historical stock data with various filters",
           <<"stock_name", "period", "filter">>,
           <<"stock_name">>),
      Tool("get_historical_stats",
           "Get historical statistics for a stock",
           <<"stock_name", "stats">>,
           <<"stock_name", "stats">>)
    >>

\* stdio_server.py handle_call_tool: per branch the endpoint, the
\* arguments[key] it reads, and the keys it copies when they are there
StdioToolBranches ==
    [ get_stock_data |->
        [endpoint |-> "/stock", reads |-> <<"name">>,
         optional |-> <<>>],
      search_industry |->
        [endpoint |-> "/industry_search", reads |-> <<"query">>,
         optional |-> <<>>],
      search_mutual_funds |->
        [endpoint |-> "/mutual_fund_search", reads |-> <<"query">>,
         optional |-> <<>>],
      get_trending_stocks |->
        [endpoint |-> "/trending", reads |-> <<>>,
         optional |-> <<>>],
      get_52_week_high_low |->
        [endpoint |-> "/fetch_52_week_high_low_data", reads |-> <<>>,
         optional |-> <<>>],
      get_nse_most_active |->
        [endpoint |-> "/NSE_most_active", reads |-> <<>>,
         optional |-> <<>>],
      get_bse_most_active |->
        [endpoint |-> "/BSE_most_active", reads |-> <<>>,
         optional |-> <<>>],
      get_mutual_funds |->
        [endpoint |-> "/mutual_funds", reads |-> <<>>,
         optional |-> <<>>],
      get_price_shockers |->
        [endpoint |-> "/price_shockers", reads |-> <<>>,
         optional |-> <<>>],
      get_commodities |->
        [endpoint |-> "/commodities", reads |-> <<>>,
         optional |-> <<>>],
      get_analyst_recommendations |->
        [endpoint |-> "/stock_target_price", reads |-> <<"stock_id">>,
         optional |-> <<>>],
      get_stock_forecasts |->
        [endpoint |-> "/stock_forecasts", reads |-> <<"stock_id", "measure_code", "period_type", "data_type", "age">>,
         optional |-> <<>>],
      get_historical_data |->
        [endpoint |-> "/historical_data", reads |-> <<"stock_name">>,
         optional |-> <<"period", "filter">>],
      get_historical_stats |->
        [endpoint |-> "/historical_stats", reads |-> <<"stock_name", "stats">>,
         optional |-> <<>>] ]

\* stdio_server.py handle_call_tool: the heading of the text a branch returns
StdioToolTitle(tool, arguments) ==
    CASE tool = "get_stock_data" ->
           "Stock Data for " \o PyStr(arguments.v["name"])
      [] tool = "search_industry" ->
           "Industry Search Results for '" \o PyStr(arguments.v["query"]) \o "'"
      [] tool = "search_mutual_funds" ->
           "Mutual Fund Search Results for '" \o PyStr(arguments.v["query"]) \o "'"
      [] tool = "get_trending_stocks" ->
           "Trending Stocks"
      [] tool = "get_52_week_high_low" ->
           "52 Week High/Low Data"
      [] tool = "get_nse_most_active" ->
           "NSE Most Active Stocks"
      [] tool = "get_bse_most_active" ->
           "BSE Most Active Stocks"
      [] tool = "get_mutual_funds" ->
           "Mutual Funds Data"
      [] tool = "get_price_shockers" ->
           "Price Shockers"
      [] tool = "get_commodities" ->
           "Commodity Futures Data"
      [] tool = "get_analyst_recommendations" ->
           "Analyst Recommendations for " \o PyStr(arguments.v["stock_id"])
      [] tool = "get_stock_forecasts" ->
           "Stock Forecasts for " \o PyStr(arguments.v["stock_id"])
      [] tool = "get_historical_data" ->
           "Historical Data for " \o PyStr(arguments.v["stock_name"])
      [] tool = "get_historical_stats" ->
           "Historical Stats (" \o PyStr(arguments.v["stats"]) \o ") for " \o PyStr(arguments.v["stock_name"])

\* stdio_server.py handle_call_tool up to its await
StdioCallToolStart(name, arguments) ==
    IF ~(name.t = "str" /\ name.v \in DOMAIN StdioToolBranches)
    THEN [k |-> "raise", message |-> "Unknown tool: " \o PyStr(name)]
    ELSE LET branch == StdioToolBranches[name.v]
         IN IF branch.reads = <<>>
            THEN [k |-> "fetch", endpoint |-> branch.endpoint, params |-> <<>>]
            ELSE IF ~IsDict(arguments)
            THEN [k |-> "raise", message |-> SubscriptMessage(arguments)]
            ELSE IF \E i \in 1..Len(branch.reads) : ~PyIn(branch.reads[i], arguments)
            THEN [k |-> "raise",
                  message |-> "'" \o branch.reads[
                      CHOOSE i \in 1..Len(branch.reads) :
                          /\ ~PyIn(branch.reads[i], arguments)
                          /\ \A j \in 1..(i - 1) : PyIn(branch.reads[j], arguments)]
                      \o "'"]
            ELSE [k |-> "fetch", endpoint |-> branch.endpoint,
                  params |-> [key \in Range(branch.reads)
                                      \cup {o \in Range(branch.optional) :
                                               PyIn(o, arguments)}
                                |-> arguments.v[key]]]

\* stdio_server.py ISEClient._make_request once the upstream has answered
StdioMakeRequestDone(outcome) ==
    CASE outcome.k = "json" -> [k |-> "return", data |-> outcome.data]
      [] outcome.k = "httperror" ->
           [k |-> "raise", message |-> "API request failed: " \o outcome.message]
      [] outcome.k = "other" ->
           [k |-> "raise", message |-> "Unexpected error: " \o outcome.message]

\* stdio_server.py handle_call_tool: what it returns when a branch raised
StdioToolErrorContent(name, message) ==
    << [type |-> "text", text |-> "Error executing " \o PyStr(name) \o ": " \o message] >>

\* stdio_server.py handle_call_tool from its await to its return
StdioCallToolFinish(name, arguments, outcome) ==
    LET r == StdioMakeRequestDone(outcome)
    IN IF r.k = "raise"
       THEN StdioToolErrorContent(name, r.message)
       ELSE << [type |-> "text",
                text |-> StdioToolTitle(name.v, arguments) \o ":\n\n"
                         \o JsonDumpsIndent(r.data, 0)] >>

----------------------------------------------------------------------------
(* JSON-RPC error codes and HTTP statuses of JSONRPCHandler                *)

ParseErrorCode == -32700
InvalidRequestCode == -32600
MethodNotFoundCode == -32601
InvalidParamsCode == -32602
InternalErrorCode == -32603

StatusOk == 200
StatusAccepted == 202
StatusBadRequest == 400
StatusServerError == 500

----------------------------------------------------------------------------
(* Responses                                                               *)

\* headers are a function from header names to values
NoHeaders == [name \in {} |-> ""]

\* headers.update(more): the entries of more replace those of headers
HeadersUpdate(headers, more) == more @@ headers

AllowOrigin == "Access-Control-Allow-Origin" :> "*"

AllowMethods == "Access-Control-Allow-Methods" :> "GET, POST, OPTIONS, PUT, DELETE"

AllowHeaders ==
    "Access-Control-Allow-Headers"
        :> "Content-Type, Authorization, x-api-key, x-requested-with"

\* content_type="application/json" of a Response
JsonContentType == "Content-Type" :> "application/json; charset=utf-8"

\* JSONRPCHandler._get_cors_headers
GetCorsHeaders ==
    AllowOrigin @@ AllowMethods @@ AllowHeaders
    @@ ("Access-Control-Max-Age" :> "86400")
    @@ ("Cache-Control" :> "no-cache, no-store, must-revalidate")
    @@ ("Connection" :> "keep-alive")

NoResponse == [status |-> 0, headers |-> NoHeaders, body |-> [kind |-> "none"]]

\* Response(text="", status=..., headers=self._get_cors_headers())
EmptyResponse(status) ==
    [status |-> status, headers |-> GetCorsHeaders, body |-> [kind |-> "empty"]]

\* JSONRPCHandler._create_success_response
CreateSuccessResponse(result, request_id) ==
    [status |-> StatusOk,
     headers |-> HeadersUpdate(JsonContentType, GetCorsHeaders),
     body |-> [kind |-> "json",
               data |-> [jsonrpc |-> "2.0", id |-> request_id, result |-> result]]]

\* JSONRPCHandler._create_error_response
CreateErrorResponse(error, request_id, status) ==
    [status |-> status,
     headers |-> HeadersUpdate(JsonContentType, GetCorsHeaders),
     body |-> [kind |-> "json",
               data |-> [jsonrpc |-> "2.0", id |-> request_id, error |-> error]]]

RpcError(code, message) == [code |-> code, message |-> message]

----------------------------------------------------------------------------
(* JSONRPCHandler.handle_jsonrpc                                           *)

\* the version is checked only when the envelope has one
VersionMismatch_AbsentAllowed(data) ==
    PyIn("jsonrpc", data) /\ PyGet(data, "jsonrpc", JNull) # JStr("2.0")

\* jsonrpc_version != "2.0"
VersionMismatch(data) == PyGet(data, "jsonrpc", JNull) # JStr("2.0")

\* request_id = data.get("id") or None
RequestId_DropsFalsy(data) ==
    IF Truthy(PyGet(data, "id", JNull)) THEN PyGet(data, "id", JNull) ELSE JNull

\* request_id = data.get("id")
RequestId(data) == PyGet(data, "id", JNull)

\* method = data.get("method")
MethodOf(data) == PyGet(data, "method", JNull)

\* params = data.get("params", {})
ParamsOf(data) == PyGet(data, "params", Obj(<<>>))

\* "initialized" in data: the keys only
LooksInitialized_KeysOnly(data) == PyIn("initialized", data)

\* "initialized" in str(data)
LooksInitialized(data) == Contains(PyStr(data), "initialized")

\* is_notification = data.get("id") is None
IsNotification_ByValue(data) == PyGet(data, "id", JNull) = JNull

\* is_notification = "id" not in data
IsNotification(data) == ~PyIn("id", data)

\* the clean_content loop: type and text of each item
CleanContent(tool_result) ==
    [i \in 1..Len(tool_result) |->
        [type |-> tool_result[i].type, text |-> tool_result[i].text]]

\* the initialize branch's result
InitializeResult ==
    [protocolVersion |-> "2024-11-05",
     capabilities |-> [tools |-> Obj(<<>>)],
     serverInfo |-> [name |-> "indian-stock-exchange", version |-> "1.0.0"]]

\* the Tool objects of handle_list_tools() serialized whole
CleanTools_WholeTool == HandleListTools

\* the clean_tools loop that starts at the second tool
CleanTools_SkipsFirst ==
    [i \in 1..(Len(HandleListTools) - 1) |->
        [name |-> HandleListTools[i + 1].name,
         description |-> HandleListTools[i + 1].description,
         inputSchema |-> HandleListTools[i + 1].inputSchema]]

\* a catalog that is empty until a client has initialized
CleanTools_AfterHandshake ==
    IF logged_client.k = "client"
    THEN [i \in 1..Len(HandleListTools) |->
             [name |-> HandleListTools[i].name,
              description |-> HandleListTools[i].description,
              inputSchema |-> HandleListTools[i].inputSchema]]
    ELSE <<>>

\* the clean_tools loop over handle_list_tools()
CleanTools ==
    [i \in 1..Len(HandleListTools) |->
        [name |-> HandleListTools[i].name,
         description |-> HandleListTools[i].description,
         inputSchema |-> HandleListTools[i].inputSchema]]

\* the tools/call branch up to the await inside handle_call_tool
DispatchToolCall(params) ==
    IF ~IsDict(params)
    THEN [k |-> "error",
          error |-> RpcError(InternalErrorCode,
                             "Internal error: " \o NoGetMessage(params))]
    ELSE LET tool_name == PyGet(params, "name", JNull)
             tool_arguments == PyGet(params, "arguments", Obj(<<>>))
         IN IF ~Truthy(tool_name)
            THEN [k |-> "error",
                  error |-> RpcError(InvalidParamsCode, "Missing tool name")]
            ELSE LET start == CallToolStart(tool_name, tool_arguments)
                 IN IF start.k = "raise"
                    THEN [k |-> "result",
                          result |-> [content |->
                              CleanContent(ToolErrorContent(tool_name, start.message))]]
                    ELSE [k |-> "await", endpoint |-> start.endpoint,
                          params |-> start.params]

\* an initialize branch that checks params itself and calls a non-mapping
\* invalid params
DispatchInitialize_InvalidParams(params) ==
    IF ~IsDict(params)
    THEN [k |-> "error",
          error |-> RpcError(InvalidParamsCode, "Invalid params")]
    ELSE LET client_info == PyGet(params, "clientInfo", Obj(<<>>))
         IN IF ~IsDict(client_info)
            THEN [k |-> "error",
                  error |-> RpcError(InvalidParamsCode, "Invalid params")]
            ELSE [k |-> "result", result |-> InitializeResult]

\* the initialize branch
DispatchInitialize(params) ==
    IF ~IsDict(params)
    THEN [k |-> "error",
          error |-> RpcError(InternalErrorCode,
                             "Internal error: " \o NoGetMessage(params))]
    ELSE LET client_info == PyGet(params, "clientInfo", Obj(<<>>))
         IN IF ~IsDict(client_info)
            THEN [k |-> "error",
                  error |-> RpcError(InternalErrorCode,
                                     "Internal error: " \o NoGetMessage(client_info))]
            ELSE [k |-> "result", result |-> InitializeResult]

\* the log line that keeps the client it named first
ClientLine_FirstKept(client_info) ==
    IF logged_client.k = "client"
    THEN logged_client
    ELSE [k |-> "client",
          client_name |-> PyStr(PyGet(client_info, "name", JStr("unknown"))),
          client_version |-> PyStr(PyGet(client_info, "version", JStr("unknown")))]

\* client_name and client_version of the initialize branch, as logger.info
\* writes them
ClientLine(client_info) ==
    [k |-> "client",
     client_name |-> PyStr(PyGet(client_info, "name", JStr("unknown"))),
     client_version |-> PyStr(PyGet(client_info, "version", JStr("unknown")))]

\* no "Initializing connection from ..." line in the log
NoClient == [k |-> "none"]

\* the log after handle_jsonrpc has handled a body: the initialize branch
\* writes its line when both .get calls succeeded
LogAfter(body, log) ==
    IF /\ IsDict(body)
       /\ ~VersionMismatch(body)
       /\ MethodOf(body) = JStr("initialize")
       /\ DispatchInitialize(ParamsOf(body)).k = "result"
    THEN ClientLine(PyGet(ParamsOf(body), "clientInfo", Obj(<<>>)))
    ELSE log

\* the notifications/initialized branch without its return
AckInitialized_FallsThrough == [k |-> "result", result |-> JNull]

\* the notifications/initialized branch: the Response it returns at once
AckInitialized == [k |-> "return", response |-> EmptyResponse(StatusAccepted)]

\* the try block that selects the branch of a method: a result, an error,
\* a Response returned at once, or the upstream request it waits for
Dispatch(method, params) ==
    CASE method = JStr("tools/list") -> [k |-> "result", result |-> [tools |-> CleanTools]]
      [] method = JStr("tools/call") -> DispatchToolCall(params)
      [] method = JStr("initialize") -> DispatchInitialize(params)
      [] method = JStr("notifications/initialized") -> AckInitialized
      [] method = JStr("ping") -> [k |-> "result", result |-> Obj(<<>>)]
      [] OTHER ->
           [k |-> "error",
            error |-> RpcError(MethodNotFoundCode,
                               "Method not found: " \o PyStr(method))]

\* no notification test: a notification is answered like a request
Emit_AnswersNotifications(data, outcome) ==
    IF outcome.k = "return" THEN outcome.response
    ELSE IF outcome.k = "error"
    THEN CreateErrorResponse(outcome.error, RequestId(data), StatusOk)
    ELSE CreateSuccessResponse(outcome.result, RequestId(data))

\* the notification test without "and not error": a notification never
\* gets a body
Emit_SilentNotifications(data, outcome) ==
    IF outcome.k = "return" THEN outcome.response
    ELSE IF IsNotification(data)
    THEN EmptyResponse(StatusAccepted)
    ELSE IF outcome.k = "error"
    THEN CreateErrorResponse(outcome.error, RequestId(data), StatusOk)
    ELSE CreateSuccessResponse(outcome.result, RequestId(data))

\* from "For notifications, don't send a response unless there's an error"
\* to the end of the try block
Emit(data, outcome) ==
    IF outcome.k = "return" THEN outcome.response
    ELSE IF IsNotification(data) /\ outcome.k # "error"
    THEN EmptyResponse(StatusAccepted)
    ELSE IF outcome.k = "error"
    THEN CreateErrorResponse(outcome.error, RequestId(data), StatusOk)
    ELSE CreateSuccessResponse(outcome.result, RequestId(data))

\* the except json.JSONDecodeError clause without status=400
ParseErrorResponse_DefaultStatus ==
    CreateErrorResponse(RpcError(ParseErrorCode, "Parse error"), JNull, StatusOk)

\* the except json.JSONDecodeError clause
ParseErrorResponse ==
    CreateErrorResponse(RpcError(ParseErrorCode, "Parse error"), JNull,
                        StatusBadRequest)

\* the outer except Exception clause with the HTTP status as the error code
UnreadableResponse_StatusAsCode ==
    CreateErrorResponse(
        RpcError(StatusServerError,
                 "Internal error: 'utf-8' codec can't decode byte 0xff"),
        JNull, StatusServerError)

\* the outer except Exception clause when request.json() itself raised:
\* data is not among the locals, so the id is None
UnreadableResponse ==
    CreateErrorResponse(
        RpcError(InternalErrorCode,
                 "Internal error: 'utf-8' codec can't decode byte 0xff"),
        JNull, StatusServerError)

\* handle_jsonrpc up to its first await on the upstream: the Response it
\* returns, the exception that leaves it, or the request it waits for
HandleJsonRpc(body) ==
    IF body = Malformed
    THEN [k |-> "response", response |-> ParseErrorResponse]
    ELSE IF body = Unreadable
    THEN [k |-> "response", response |-> UnreadableResponse]
    ELSE IF ~IsDict(body)
    THEN [k |-> "raise", message |-> NoGetMessage(body)]
    ELSE IF VersionMismatch(body)
    THEN [k |-> "response",
          response |-> CreateErrorResponse(
              RpcError(InvalidRequestCode,
                       "Invalid Request - JSON-RPC version must be 2.0"),
              RequestId(body), StatusOk)]
    ELSE IF MethodOf(body) = JNull
    THEN IF LooksInitialized(body)
         THEN [k |-> "response",
               response |-> CreateSuccessResponse(Obj(<<>>), RequestId(body))]
         ELSE [k |-> "response",
               response |-> CreateErrorResponse(
                   RpcError(InvalidRequestCode,
                            "Invalid Request - method field is required"),
                   RequestId(body), StatusOk)]
    ELSE LET outcome == Dispatch(MethodOf(body), ParamsOf(body))
         IN IF outcome.k = "await"
            THEN outcome
            ELSE [k |-> "response", response |-> Emit(body, outcome)]

\* handle_jsonrpc from the upstream's answer to its return
ResumeJsonRpc(body, upstream) ==
    LET params == ParamsOf(body)
        tool_result == CallToolFinish(PyGet(params, "name", JNull),
                                      PyGet(params, "arguments", Obj(<<>>)),
                                      upstream)
    IN [k |-> "response",
        response |-> Emit(body, [k |-> "result",
                                 result |-> [content |-> CleanContent(tool_result)]])]

\* JSONRPCHandler.handle_health
HandleHealth ==
    [k |-> "response",
     response |-> [status |-> StatusOk,
                   headers |-> JsonContentType,
                   body |-> [kind |-> "json",
                             data |-> [status |-> "healthy",
                                       server |-> "indian-stock-exchange",
                                       version |-> "1.0.0"]]]]

\* JSONRPCHandler.handle_info
HandleInfo ==
    [k |-> "response",
     response |-> [status |-> StatusOk,
                   headers |-> JsonContentType,
                   body |-> [kind |-> "json",
                             data |-> [server |-> "indian-stock-exchange",
                                       version |-> "1.0.0",
                                       description |-> "Indian Stock Exchange MCP Server",
                                       capabilities |-> [tools |-> Len(HandleListTools)],
                                       tools |-> [i \in 1..Len(HandleListTools) |->
                                           [name |-> HandleListTools[i].name,
                                            description |->
                                                HandleListTools[i].description]]]]]]

\* the routes of create_app for GET: the handler's Response, or the
\* HTTPMethodNotAllowed / HTTPNotFound that aiohttp's handler for an
\* unrouted request raises
RouteGet(path) ==
    CASE path = "/health" -> HandleHealth
      [] path \in {"/info", "/"} -> HandleInfo
      [] path = "/jsonrpc" -> [k |-> "raise", message |-> "Method Not Allowed"]
      [] OTHER -> [k |-> "raise", message |-> "Not Found"]

\* cors_middleware when request.method == "OPTIONS": the handler is not called
CorsPreflight ==
    [status |-> StatusOk,
     headers |-> AllowOrigin @@ AllowMethods @@ AllowHeaders
                 @@ ("Access-Control-Max-Age" :> "86400")
                 @@ ("Content-Length" :> "0"),
     body |-> [kind |-> "empty"]]

\* cors_middleware that returns what the handler returned, as it is
CorsMiddleware_HandlerResponseAsIs(handled) ==
    IF handled.k = "raise"
    THEN [status |-> StatusServerError,
          headers |-> HeadersUpdate(JsonContentType,
                                    AllowOrigin @@ AllowMethods @@ AllowHeaders),
          body |-> [kind |-> "json", data |-> [error |-> handled.message]]]
    ELSE handled.response

\* cors_middleware around a handler: the three headers are written over the
\* handler's Response; an exception that leaves the handler becomes a 500
\* whose body is {"error": str(e)}
CorsMiddleware(handled) ==
    IF handled.k = "raise"
    THEN [status |-> StatusServerError,
          headers |-> HeadersUpdate(JsonContentType,
                                    AllowOrigin @@ AllowMethods @@ AllowHeaders),
          body |-> [kind |-> "json", data |-> [error |-> handled.message]]]
    ELSE [handled.response EXCEPT
             !.headers = HeadersUpdate(@, AllowOrigin @@ AllowMethods @@ AllowHeaders)]

----------------------------------------------------------------------------
(* The request bodies and upstream answers the model draws from            *)

VersionValues == {Absent, JStr("2.0"), JStr("1.0"), JNum("2.0")}

MethodValues ==
    {Absent, JNull, JNum("7")}
    \cup {JStr(m) : m \in {"initialize", "notifications/initialized", "ping",
                           "tools/list", "tools/call", "resources/list",
                           "initialized", ""}}

IdValues == {Absent, JNull, JStr("1"), JNum("1"), JNum("0")}

ToolNameValues ==
    {Absent, JNull, JStr(""), JNum("5"), JStr("no_such_tool"),
     JStr("get_stock_data"), JStr("get_trending_stocks"), JStr("get_historical_data")}

ArgumentValues ==
    {Absent, JNull, Obj(<<>>), Obj(<< <<"name", JStr("Reliance")>> >>),
     Obj(<< <<"stock_name", JStr("TCS")>>, <<"period", JStr("1m")>> >>)}

ClientInfoValues ==
    {JNull, Obj(<<>>),
     Obj(<< <<"name", JStr("dify")>>, <<"version", JStr("1.0")>> >>)}

ParamsValues ==
    {Absent, JNull, JStr("initialized"), JList(<<>>),
     Obj(<< <<"state", JStr("initialized")>> >>)}
    \cup {Obj(<< <<"name", n>>, <<"arguments", a>> >>) :
             n \in ToolNameValues, a \in ArgumentValues}
    \cup {Obj(<< <<"clientInfo", c>> >>) : c \in ClientInfoValues}

Envelope(j, m, p, i) ==
    Obj(<< <<"jsonrpc", j>>, <<"method", m>>, <<"params", p>>, <<"id", i>> >>)

Envelopes ==
    {Envelope(j, m, p, i) :
        j \in VersionValues, m \in MethodValues, p \in ParamsValues, i \in IdValues}
    \cup {Obj(<< <<"jsonrpc", JStr("2.0")>>, <<"initialized", JNull>>, <<"id", i>> >>) :
             i \in IdValues}

\* valid JSON that is no object
NonObjects == {JNull, JStr("ping"), JNum("1"), JList(<<>>)}

Bodies == {Malformed, Unreadable} \cup NonObjects \cup Envelopes

\* the paths a GET is sent to: the three routes, the POST-only route, and
\* one path that has no route
GetPaths == {"/health", "/info", "/", "/jsonrpc", "/favicon.ico"}

\* a GET request
GetRequest(path) == [t |-> "get", path |-> path]

\* what a preflight is sent with: a path and (unusually) a body
PreflightPaths == {"/jsonrpc", "/health"}

PreflightBodies ==
    {Absent, Malformed,
     Envelope(JStr("2.0"), JStr("tools/call"),
              Obj(<< <<"name", JStr("get_trending_stocks")>> >>), JNum("1"))}

\* an OPTIONS request
OptionsRequest(path, body) == [t |-> "options", path |-> path, body |-> body]

Payloads ==
    {JNull,
     Obj(<< <<"price", JNum("100")>> >>),
     JList(<< Obj(<< <<"ticker", JStr("TCS")>>, <<"price", JNum("1")>> >>) >>)}

\* what the upstream does with one request: a JSON payload, an httpx.HTTPError
\* (no connection, a non-2xx status, a timeout), or a body that is no JSON
UpstreamOutcomes ==
    {[k |-> "json", data |-> d] : d \in Payloads}
    \cup {[k |-> "httperror", message |-> m] :
             m \in {"All connection attempts failed",
                    "Server error '500 Internal Server Error' for url",
                    "The read operation timed out"}}
    \cup {[k |-> "other", message |-> "Expecting value: line 1 column 1 (char 0)"]}

----------------------------------------------------------------------------
(* One exchange at a time: a POST arrives, the handler runs to its         *)
(* Response or to its upstream request, the upstream answers, the Response *)
(* is sent.                                                                *)

NoRequest == Absent

\* an upstream request that has not been answered yet
Pending == [k |-> "pending"]

\* an exchange that has not begun
IdleExchange ==
    [pc |-> "idle", request |-> NoRequest, response |-> NoResponse, fetches |-> <<>>]

\* the process once main() has started the site and waits in its loop
Serving ==
    [entry |-> "http", api_key |-> TRUE, transport_ok |-> TRUE,
     phase |-> "serving", fatal |-> "none", exit_status |-> 0,
     client_open |-> TRUE, channel_open |-> FALSE]

AcceptsRequests == process.entry = "http" /\ process.phase = "serving"

----------------------------------------------------------------------------
(* The clients as their constructors leave them                            *)

\* SimpleMCPClient.__init__, with what the properties need of its history:
\* what the last connect() returned and whether close() was called since
NewSimpleClient ==
    [connected |-> FALSE, request_id |-> 0, tools |-> "none",
     client_closed |-> FALSE,
     last_connect |-> "never", closed_since |-> FALSE,
     op |-> "init", raised |-> ""]

\* MCPClient.__init__ for a stdio configuration with or without a command;
\* channel is the state of the streams stdio_client opened last, called_on
\* the state of the streams the last call_tool worked on
NewMCPClient(command) ==
    [command |-> command, session |-> FALSE, channel |-> "none",
     tools |-> "none", connect_returned |-> "never",
     op |-> "init", raised |-> "", called_on |-> "none"]

\* MCPClientManager.__init__; made lists every MCPClient add_client created
NewManager ==
    [clients |-> <<>>, made |-> <<>>, last |-> "init"]

----------------------------------------------------------------------------
Init ==
    /\ simple = NewSimpleClient
    /\ mcp = NewMCPClient(TRUE)
    /\ manager = NewManager
    /\ pc = "idle"
    /\ request = NoRequest
    /\ response = NoResponse
    /\ fetches = <<>>
    /\ other = IdleExchange
    /\ logged_client = NoClient
    /\ process = Serving

\* POST /jsonrpc with a body of the given set
PostOf(bodies) ==
    /\ AcceptsRequests
    /\ pc = "idle"
    /\ \E body \in bodies :
        /\ request' = body
        /\ logged_client' = LogAfter(body, logged_client)
        /\ LET handled == HandleJsonRpc(body)
           IN IF handled.k = "await"
              THEN /\ pc' = "upstream"
                   /\ fetches' = Append(fetches, [endpoint |-> handled.endpoint,
                                                  params |-> handled.params,
                                                  outcome |-> Pending])
                   /\ response' = NoResponse
              ELSE /\ pc' = "responded"
                   /\ fetches' = fetches
                   /\ response' = CorsMiddleware(handled)
    /\ UNCHANGED <<other, process, client_vars>>

\* POST /jsonrpc with some body
Post == PostOf(Bodies)

\* GET on some path
Get ==
    /\ AcceptsRequests
    /\ pc = "idle"
    /\ \E path \in GetPaths :
        /\ request' = GetRequest(path)
        /\ response' = CorsMiddleware(RouteGet(path))
    /\ pc' = "responded"
    /\ UNCHANGED <<fetches, other, logged_client, process, client_vars>>

\* OPTIONS on some path, with or without a body
Options ==
    /\ AcceptsRequests
    /\ pc = "idle"
    /\ \E path \in PreflightPaths, body \in PreflightBodies :
        request' = OptionsRequest(path, body)
    /\ response' = CorsPreflight
    /\ pc' = "responded"
    /\ UNCHANGED <<fetches, other, logged_client, process, client_vars>>

\* ISEClient._make_request with a second attempt after an httpx.HTTPError
UpstreamAnswers_TriesAgain ==
    /\ pc = "upstream"
    /\ \E outcome \in UpstreamOutcomes :
        IF outcome.k = "httperror" /\ Len(fetches) = 1
        THEN /\ fetches' = Append([fetches EXCEPT ![1].outcome = outcome],
                                  [fetches[1] EXCEPT !.outcome = Pending])
             /\ UNCHANGED <<pc, response>>
        ELSE /\ response' = CorsMiddleware(ResumeJsonRpc(request, outcome))
             /\ fetches' = [fetches EXCEPT ![Len(fetches)].outcome = outcome]
             /\ pc' = "responded"
    /\ UNCHANGED <<request, other, logged_client, process, client_vars>>

\* the upstream answers the request of ISEClient._make_request
UpstreamAnswers ==
    /\ pc = "upstream"
    /\ \E outcome \in UpstreamOutcomes :
        /\ response' = CorsMiddleware(ResumeJsonRpc(request, outcome))
        /\ fetches' = [fetches EXCEPT ![Len(fetches)].outcome = outcome]
    /\ pc' = "responded"
    /\ UNCHANGED <<request, other, logged_client, process, client_vars>>

\* the Response is sent and the exchange is over
Deliver ==
    /\ pc = "responded"
    /\ pc' = "idle"
    /\ request' = NoRequest
    /\ response' = NoResponse
    /\ fetches' = <<>>
    /\ UNCHANGED <<other, logged_client, process, client_vars>>

Next ==
    \/ Post
    \/ Get
    \/ Options
    \/ UpstreamAnswers
    \/ Deliver

Spec == Init /\ [][Next]_vars

TypeOK ==
    /\ pc \in {"idle", "upstream", "responded"}
    /\ Len(fetches) <= 1
    /\ (pc = "responded") = (response # NoResponse)
    /\ other.pc \in {"idle", "upstream", "responded"}
    /\ logged_client.k \in {"none", "client"}
    /\ process.phase \in {"starting", "validated", "serving", "exited"}

----------------------------------------------------------------------------
(* The server process from its start, with two clients.                    *)
(*                                                                         *)
(* main() of either entry point validates the configuration and opens its  *)
(* transport (the HTTP server binds its port with site.start(), the stdio  *)
(* server opens stdio_server()); a failure of either step ends the         *)
(* process. Once the HTTP server serves, two clients post requests, and    *)
(* the handler of one request runs while the other waits for the upstream: *)
(* handle_jsonrpc is a coroutine that yields at its awaits only.           *)

\* the requests the two clients choose from
FewBodies ==
    {Malformed, JNull}
    \cup {Envelope(JStr("2.0"), JStr(m), Absent, i) :
             m \in {"tools/list", "ping", "resources/list"},
             i \in {Absent, JNum("1")}}
    \cup {Envelope(JStr("2.0"), JStr("notifications/initialized"), Absent, Absent)}
    \cup {Envelope(JStr("2.0"), JStr("initialize"),
                   Obj(<< <<"clientInfo", c>> >>), JNum("1")) :
             c \in ClientInfoValues}
    \cup {Envelope(JStr("2.0"), JStr("tools/call"),
                   Obj(<< <<"name", JStr(n)>>, <<"arguments", Obj(<<>>)>> >>), i) :
             n \in {"get_trending_stocks", "get_stock_data", "no_such_tool"},
             i \in {Absent, JNum("1")}}

\* what the environment gives a starting process: the entry point that was
\* run, whether ISE_API_KEY is set, whether the transport can be opened.
\* The module has created ise_client (client_open); the stdio channel is
\* not open yet.
Starting ==
    {[entry |-> e, api_key |-> key, transport_ok |-> ok,
      phase |-> "starting", fatal |-> "none", exit_status |-> 0,
      client_open |-> TRUE, channel_open |-> FALSE] :
        e \in {"http", "stdio"}, key \in BOOLEAN, ok \in BOOLEAN}

ServerInit ==
    /\ simple = NewSimpleClient
    /\ mcp = NewMCPClient(TRUE)
    /\ manager = NewManager
    /\ pc = "idle"
    /\ request = NoRequest
    /\ response = NoResponse
    /\ fetches = <<>>
    /\ other = IdleExchange
    /\ logged_client = NoClient
    /\ process \in Starting

\* the status the process exits with when main() meets a fatal error.
\* server.py: main() logs the ValueError and returns, and cli_main() logs
\* any other exception; either way the interpreter ends normally.
\* stdio_server.py: both except clauses of main() call sys.exit(1).
FatalExitStatus(entry) == IF entry = "http" THEN 0 ELSE 1

\* whether ise_client is still open after main() has met a fatal error.
\* server.py: the return at 724 and the exception of site.start() at 736
\* are outside the try/finally of 750-759, so ise_client.close() is not
\* reached. stdio_server.py: the finally clause of main() closes it.
ClientOpenAfterFatal(entry) == entry = "http"

\* main() ends on a fatal error of the given kind
FatalExit(p, kind) ==
    [p EXCEPT !.phase = "exited", !.fatal = kind,
              !.exit_status = FatalExitStatus(p.entry),
              !.client_open = ClientOpenAfterFatal(p.entry)]

\* Config.validate_config() at the start of main()
ValidateConfig ==
    /\ process.phase = "starting"
    /\ process' =
          IF process.api_key
          THEN [process EXCEPT !.phase = "validated"]
          ELSE FatalExit(process, "config")
    /\ UNCHANGED <<pc, request, response, fetches, other, logged_client, client_vars>>

\* runner.setup() and site.start() of server.py, stdio_server() of
\* stdio_server.py, which opens the stdio channel
OpenTransport ==
    /\ process.phase = "validated"
    /\ process' =
          IF process.transport_ok
          THEN [process EXCEPT !.phase = "serving",
                               !.channel_open = (process.entry = "stdio")]
          ELSE FatalExit(process, "transport")
    /\ UNCHANGED <<pc, request, response, fetches, other, logged_client, client_vars>>

\* the status after a KeyboardInterrupt: cli_main() of server.py catches it
\* and returns; stdio_server.py lets it leave asyncio.run(main()), and the
\* interpreter ends as killed by SIGINT
InterruptExitStatus(entry) == IF entry = "http" THEN 0 ELSE 130

\* Ctrl-C while the server serves: asyncio.run cancels main(), whose finally
\* clause runs (server.py: runner.cleanup(), which drops the connections,
\* and ise_client.close(); stdio_server.py: the async with leaves
\* stdio_server(), then ise_client.close())
Interrupt ==
    /\ process.phase = "serving"
    /\ process' = [process EXCEPT !.phase = "exited",
                                  !.exit_status = InterruptExitStatus(process.entry),
                                  !.client_open = FALSE,
                                  !.channel_open = FALSE]
    /\ pc' = "idle"
    /\ request' = NoRequest
    /\ response' = NoResponse
    /\ fetches' = <<>>
    /\ other' = IdleExchange
    /\ UNCHANGED <<logged_client, client_vars>>

\* the stdio server's app.run() returns (its input ended) or raises: the
\* async with leaves stdio_server(), the except Exception clause calls
\* sys.exit(1) for an exception, and the finally clause closes ise_client
StdioRunEnds ==
    /\ process.entry = "stdio"
    /\ process.phase = "serving"
    /\ \E status \in {0, 1} :
          process' = [process EXCEPT !.phase = "exited",
                                    !.exit_status = status,
                                    !.client_open = FALSE,
                                    !.channel_open = FALSE]
    /\ UNCHANGED <<pc, request, response, fetches, other, logged_client, client_vars>>

\* POST /jsonrpc by the first client
PostFew == PostOf(FewBodies)

\* POST /jsonrpc by the second client
OtherPost ==
    /\ AcceptsRequests
    /\ other.pc = "idle"
    /\ \E body \in FewBodies :
        /\ logged_client' = LogAfter(body, logged_client)
        /\ LET handled == HandleJsonRpc(body)
           IN other' =
                IF handled.k = "await"
                THEN [pc |-> "upstream", request |-> body, response |-> NoResponse,
                      fetches |-> <<[endpoint |-> handled.endpoint,
                                     params |-> handled.params,
                                     outcome |-> Pending]>>]
                ELSE [pc |-> "responded", request |-> body,
                      response |-> CorsMiddleware(handled), fetches |-> <<>>]
    /\ UNCHANGED <<pc, request, response, fetches, process, client_vars>>

\* the upstream answers the request made for the second client
OtherUpstreamAnswers ==
    /\ other.pc = "upstream"
    /\ \E outcome \in UpstreamOutcomes :
        other' = [other EXCEPT
                     !.pc = "responded",
                     !.response = CorsMiddleware(ResumeJsonRpc(other.request, outcome)),
                     !.fetches = [@ EXCEPT ![Len(@)].outcome = outcome]]
    /\ UNCHANGED <<pc, request, response, fetches, logged_client, process, client_vars>>

\* the Response to the second client is sent
OtherDeliver ==
    /\ other.pc = "responded"
    /\ other' = IdleExchange
    /\ UNCHANGED <<pc, request, response, fetches, logged_client, process, client_vars>>

ServerNext ==
    \/ ValidateConfig
    \/ OpenTransport
    \/ Interrupt
    \/ StdioRunEnds
    \/ PostFew
    \/ UpstreamAnswers
    \/ Deliver
    \/ OtherPost
    \/ OtherUpstreamAnswers
    \/ OtherDeliver

SpecServer == ServerInit /\ [][ServerNext]_vars

----------------------------------------------------------------------------
(* Every tool called through tools/call.                                   *)

\* the names a client calls: the names of handle_list_tools and one more
CalledNames == {HandleListTools[i].name : i \in 1..Len(HandleListTools)} \cup {"no_such_tool"}

\* the arguments a client sends: every key some tool reads, the same
\* without the optional keys of get_historical_data, and none at all
CalledArguments ==
    {Obj(<< <<"name", JStr("Reliance")>>, <<"query", JStr("banks")>>,
            <<"stock_id", JStr("TCS")>>, <<"measure_code", JStr("EPS")>>,
            <<"period_type", JStr("Annual")>>, <<"data_type", JStr("Actuals")>>,
            <<"age", JStr("Current")>>, <<"stock_name", JStr("infosys")>>,
            <<"stats", JStr("quarter_results")>>, <<"period", JStr("1yr")>>,
            <<"filter", JStr("price")>> >>),
     Obj(<< <<"name", JStr("Tata Motors")>>, <<"query", JStr("it's")>>,
            <<"stock_id", JStr("INFY")>>, <<"measure_code", JStr("ROE")>>,
            <<"period_type", JStr("Interim")>>, <<"data_type", JStr("Estimates")>>,
            <<"age", JStr("OneWeekAgo")>>, <<"stock_name", JStr("hdfc bank")>>,
            <<"stats", JStr("ratios")>> >>),
     Obj(<<>>)}

CalledBodies ==
    {Envelope(JStr("2.0"), JStr("tools/call"),
              Obj(<< <<"name", JStr(n)>>, <<"arguments", a>> >>), i) :
        n \in CalledNames, a \in CalledArguments, i \in {Absent, JNum("1")}}

\* POST /jsonrpc with a tools/call
PostToolCall == PostOf(CalledBodies)

ToolsNext ==
    \/ PostToolCall
    \/ UpstreamAnswers
    \/ Deliver

SpecTools == Init /\ [][ToolsNext]_vars

----------------------------------------------------------------------------
(* The clients of src/client.                                              *)
(*                                                                         *)
(* Each public coroutine of a client is one action: the scripts that use   *)
(* the clients await one call after the other. What the server does to a   *)
(* request of a client is an input of the action.                          *)

server_vars == <<pc, request, response, fetches, other, logged_client, process>>

\* how far _request_id of a SimpleMCPClient counts
MaxRequestId == 5

\* _send_request: the server answers with a result, answers with an error
\* member ("MCP Error: ..."), or the POST fails ("Request failed: ...")
RequestOutcomes == {"result", "error", "unreachable"}

\* the result of tools/list as connect() reads it: tools that have the three
\* keys, or a tool without one of them (KeyError in the loop of 98-104)
ListOutcomes == {"tools", "malformed"}

NotConnectedMessage == "Not connected. Call connect() first."

\* SimpleMCPClient.connect. A closed httpx.AsyncClient refuses to send: the
\* RuntimeError of client.post leaves _send_request and is caught at 110.
SimpleConnectReturns(c, init, list, listed) ==
    LET returned == [c EXCEPT !.op = "connect", !.raised = "",
                              !.closed_since = FALSE]
    IN IF c.client_closed \/ init # "result"
       THEN [returned EXCEPT !.request_id = @ + 1, !.last_connect = "False"]
       ELSE IF list # "result"
       THEN [returned EXCEPT !.request_id = @ + 2, !.last_connect = "False"]
       ELSE IF listed = "malformed"
       THEN [returned EXCEPT !.request_id = @ + 2, !.tools = "partial",
                             !.last_connect = "False"]
       ELSE [returned EXCEPT !.request_id = @ + 2, !.tools = "loaded",
                             !.connected = TRUE, !.last_connect = "True"]

SimpleConnect ==
    /\ simple.request_id + 2 <= MaxRequestId
    /\ \E init \in RequestOutcomes, list \in RequestOutcomes,
          listed \in ListOutcomes :
        simple' = SimpleConnectReturns(simple, init, list, listed)
    /\ UNCHANGED <<server_vars, mcp, manager>>

\* SimpleMCPClient.list_tools
SimpleListTools ==
    /\ simple' = [simple EXCEPT
                    !.op = "list_tools",
                    !.raised = IF simple.connected THEN "" ELSE NotConnectedMessage]
    /\ UNCHANGED <<server_vars, mcp, manager>>

\* SimpleMCPClient.call_tool
SimpleCallToolReturns(c, outcome) ==
    IF ~c.connected
    THEN [c EXCEPT !.op = "call_tool", !.raised = NotConnectedMessage]
    ELSE [c EXCEPT !.op = "call_tool", !.request_id = @ + 1,
                   !.raised = CASE outcome = "result" -> ""
                                [] outcome = "error" -> "MCP Error"
                                [] outcome = "unreachable" -> "Request failed"]

SimpleCallTool ==
    /\ simple.request_id + 1 <= MaxRequestId
    /\ \E outcome \in RequestOutcomes :
        simple' = SimpleCallToolReturns(simple, outcome)
    /\ UNCHANGED <<server_vars, mcp, manager>>

\* SimpleMCPClient.close
SimpleClose ==
    /\ simple' = [simple EXCEPT !.op = "close", !.raised = "",
                                !.client_closed = TRUE, !.connected = FALSE,
                                !.closed_since = TRUE]
    /\ UNCHANGED <<server_vars, mcp, manager>>

\* stdio_client(...): the command is missing (ValueError at 132), the server
\* process cannot be started, or it is started and its streams are open
SpawnOutcomes == {"fails", "spawned"}

\* session.initialize() and session.list_tools(): a result or an exception
SessionOutcomes == {"result", "raises"}

\* the streams of stdio_client once its `async with` block is left, by the
\* return of 148 or by an exception: a context manager closes what it opened
ChannelAfterWith == "closed"

\* MCPClient.connect with transport_type "stdio": _connect_stdio, and the
\* except clause of connect
McpConnectReturns(c, spawn, init, load) ==
    LET called == [c EXCEPT !.op = "connect", !.raised = ""]
    IN IF ~c.command \/ spawn = "fails"
       THEN [called EXCEPT !.connect_returned = "False"]
       ELSE LET left == [called EXCEPT !.session = TRUE,
                                       !.channel = ChannelAfterWith]
            IN IF init = "raises"
               THEN [left EXCEPT !.connect_returned = "False"]
               ELSE IF load = "raises"
               THEN [left EXCEPT !.connect_returned = "False"]
               ELSE [left EXCEPT !.tools = "loaded", !.connect_returned = "True"]

McpConnect ==
    /\ \E spawn \in SpawnOutcomes, init \in SessionOutcomes,
          load \in SessionOutcomes :
        mcp' = McpConnectReturns(mcp, spawn, init, load)
    /\ UNCHANGED <<server_vars, simple, manager>>

\* MCPClient.call_tool of a stdio client: session.call_tool on the streams
\* the session was given (a request on closed streams raises or never
\* returns: "dead"), or the exception of 232
McpCallTool ==
    /\ mcp' = [mcp EXCEPT
                 !.op = "call_tool",
                 !.raised = IF mcp.session THEN "" ELSE "Not connected to any server",
                 !.called_on = IF mcp.session THEN mcp.channel ELSE "none"]
    /\ UNCHANGED <<server_vars, simple, manager>>

\* MCPClient.close of a stdio client: http_transport is None, nothing is done
McpClose ==
    /\ mcp' = [mcp EXCEPT !.op = "close", !.raised = ""]
    /\ UNCHANGED <<server_vars, simple, manager>>

\* the initial state of Init, with either configuration of the MCPClient
ClientInit ==
    /\ simple = NewSimpleClient
    /\ mcp \in {NewMCPClient(command) : command \in BOOLEAN}
    /\ manager = NewManager
    /\ pc = "idle"
    /\ request = NoRequest
    /\ response = NoResponse
    /\ fetches = <<>>
    /\ other = IdleExchange
    /\ logged_client = NoClient
    /\ process = Serving

ClientNext ==
    \/ SimpleConnect
    \/ SimpleListTools
    \/ SimpleCallTool
    \/ SimpleClose
    \/ McpConnect
    \/ McpCallTool
    \/ McpClose

SpecClient == ClientInit /\ [][ClientNext]_vars

----------------------------------------------------------------------------
(* MCPClientManager                                                        *)

\* how many clients a manager is asked to add
MaxClients == 3

ServerNames == {"ise", "other"}

TransportTypes == {"stdio", "http", "websocket"}

\* MCPServerConfig: a name and a transport type, with the command or the
\* url of that type
Configs == [name : ServerNames, transport_type : TransportTypes]

\* how the server end behaves while the client connects: it cannot be
\* reached, it fails the handshake, or it initializes and lists its tools
ServerEnds == {"unreachable", "fails", "serves"}

\* MCPClient(config) after connect(): what connect() returned, and the
\* handle the client is left with: the httpx.AsyncClient of the
\* HTTPTransport made at 155, or the streams of stdio_client, closed when
\* _connect_stdio is left
ConnectedClient(config, server) ==
    [name |-> config.name,
     transport_type |-> config.transport_type,
     returned |-> (config.transport_type \in {"stdio", "http"} /\ server = "serves"),
     handle |-> CASE config.transport_type = "http" -> "open"
                  [] config.transport_type = "stdio" ->
                       IF server = "unreachable" THEN "none" ELSE ChannelAfterWith
                  [] OTHER -> "none",
     close_called |-> FALSE]

\* self.clients[config.name] = client
Registered(clients, name, client) ==
    [n \in DOMAIN clients \cup {name} |-> IF n = name THEN client ELSE clients[n]]

\* MCPClientManager.add_client; clients maps a name to the position in made
\* of the client registered under it
AddClient ==
    /\ Len(manager.made) < MaxClients
    /\ \E config \in Configs, server \in ServerEnds :
        LET client == ConnectedClient(config, server)
            made == Append(manager.made, client)
        IN manager' =
             [clients |-> IF client.returned
                          THEN Registered(manager.clients, config.name, Len(made))
                          ELSE manager.clients,
              made |-> made,
              last |-> IF client.returned THEN "add_client: True"
                                          ELSE "add_client: False"]
    /\ UNCHANGED <<server_vars, simple, mcp>>

\* MCPClient.close
ClosedClient(client) ==
    [client EXCEPT !.close_called = TRUE,
                   !.handle = IF client.transport_type = "http" THEN "closed" ELSE @]

\* MCPClientManager.close_all
CloseAll ==
    /\ manager' =
         [clients |-> <<>>,
          made |-> [i \in 1..Len(manager.made) |->
                      IF \E n \in DOMAIN manager.clients : manager.clients[n] = i
                      THEN ClosedClient(manager.made[i])
                      ELSE manager.made[i]],
          last |-> "close_all"]
    /\ UNCHANGED <<server_vars, simple, mcp>>

ManagerNext ==
    \/ AddClient
    \/ CloseAll

SpecManager == Init /\ [][ManagerNext]_vars

----------------------------------------------------------------------------
(* What the properties below read off a state                              *)

Responded == pc = "responded"

\* the body of the request is a JSON object
EnvelopePosted == request.t = "obj"

HasKey(key) == key \in DOMAIN request.v

\* the value of a key of the envelope, None when the key is absent
Field(key) == IF HasKey(key) THEN request.v[key] ELSE JNull

VersionIsTwo == HasKey("jsonrpc") /\ request.v["jsonrpc"] = JStr("2.0")

MethodIs(name) == HasKey("method") /\ request.v["method"] = JStr(name)

BodyIsEmpty == response.body.kind = "empty"

BodyIsJson == response.body.kind = "json"

BodyKeys == DOMAIN response.body.data

\* the body is a JSON-RPC response envelope with exactly one of result, error
BodyIsRpcEnvelope ==
    /\ BodyIsJson
    /\ {"jsonrpc", "id"} \subseteq BodyKeys
    /\ response.body.data.jsonrpc = "2.0"
    /\ ("result" \in BodyKeys) # ("error" \in BodyKeys)

BodyIsResult == BodyIsRpcEnvelope /\ "result" \in BodyKeys

BodyIsError(code) ==
    /\ BodyIsRpcEnvelope
    /\ "error" \in BodyKeys
    /\ response.body.data.error.code = code

Accepted == response.status = StatusAccepted /\ BodyIsEmpty

NoUpstreamCall == fetches = <<>>

StartsWith(s, prefix) ==
    Len(s) >= Len(prefix) /\ SubSeq(s, 1, Len(prefix)) = prefix

----------------------------------------------------------------------------
(* C1: every POST /jsonrpc envelope with an `id` key is answered with one  *)
(* JSON-RPC response envelope that carries exactly one of result and       *)
(* error. The handler breaks it for method notifications/initialized,      *)
(* which it answers with 202 and no body even when the envelope has an id. *)
C1_RequestGetsOneEnvelope ==
    (Responded /\ EnvelopePosted /\ HasKey("id")) => BodyIsRpcEnvelope

(* C2: whenever an envelope with an `id` key is answered with a body, the  *)
(* id of the body is the id of the request, its JSON type kept (null,      *)
(* string, number), on success and on error responses alike.               *)
C2_ResponseIdIsRequestId ==
    (Responded /\ EnvelopePosted /\ HasKey("id") /\ BodyIsJson)
        => /\ "id" \in BodyKeys
           /\ response.body.data.id = request.v["id"]
           /\ response.body.data.id.t = request.v["id"].t

C2_Witness ==
    /\ Responded /\ EnvelopePosted /\ HasKey("id")
    /\ request.v["id"] = JNum("0")
    /\ BodyIsError(MethodNotFoundCode)
    /\ response.body.data.id = JNum("0")

(* C3: an envelope without an `id` key gets 202 and no body, or, when      *)
(* dispatch produced an error, status 200 and an error body with id null;  *)
(* never a body with a result. The handler breaks it for an envelope with  *)
(* no method whose text mentions "initialized": it gets a result body.     *)
C3_NotificationGetsNoResult ==
    (Responded /\ EnvelopePosted /\ ~HasKey("id"))
        => \/ Accepted
           \/ /\ response.status = StatusOk
              /\ BodyIsRpcEnvelope
              /\ "error" \in BodyKeys
              /\ response.body.data.id = JNull

(* C4: an envelope is a notification exactly when the `id` key is absent:  *)
(* for a method that succeeds (ping, tools/list) the answer is 202 with no *)
(* body when there is no `id` key, and status 200 with a result and the    *)
(* request's id when there is one, also when that id is null.              *)
C4_NotificationIffIdAbsent ==
    (Responded /\ EnvelopePosted /\ VersionIsTwo
        /\ (MethodIs("ping") \/ MethodIs("tools/list")))
        => /\ ~HasKey("id") => Accepted
           /\ HasKey("id") =>
                /\ response.status = StatusOk
                /\ BodyIsResult
                /\ response.body.data.id = request.v["id"]

C4_Witness ==
    /\ Responded /\ EnvelopePosted /\ VersionIsTwo /\ MethodIs("ping")
    /\ HasKey("id") /\ request.v["id"] = JNull
    /\ response.status = StatusOk
    /\ BodyIsResult
    /\ response.body.data.id = JNull

(* C5: an envelope with jsonrpc "2.0" and method notifications/initialized *)
(* is answered with 202 and an empty body, with or without an `id` key and *)
(* whatever its params; no upstream call is made for it.                   *)
C5_InitializedAlwaysAccepted ==
    (EnvelopePosted /\ VersionIsTwo /\ MethodIs("notifications/initialized"))
        => /\ Responded
           /\ Accepted
           /\ NoUpstreamCall

C5_Witness ==
    /\ Responded /\ EnvelopePosted /\ VersionIsTwo
    /\ MethodIs("notifications/initialized")
    /\ HasKey("id") /\ request.v["id"] = JNum("1")
    /\ HasKey("params") /\ request.v["params"] = JNull
    /\ Accepted

C7_VersionMismatchIsInvalidRequest ==
    (EnvelopePosted /\ ~VersionIsTwo)
        => /\ Responded
           /\ response.status = StatusOk
           /\ BodyIsError(InvalidRequestCode)
           /\ Contains(response.body.data.error.message, "2.0")
           /\ response.body.data.id = Field("id")
           /\ NoUpstreamCall

C7_Witness ==
    /\ Responded /\ EnvelopePosted
    /\ ~HasKey("jsonrpc") /\ ~HasKey("method") /\ ~HasKey("id")
    /\ HasKey("params") /\ request.v["params"] = JStr("initialized")
    /\ BodyIsError(InvalidRequestCode)

\* some key or some string inside a JSON value contains the text
RECURSIVE Mentions(_, _)
Mentions(x, text) ==
    CASE x.t = "str"  -> Contains(x.v, text)
      [] x.t = "list" -> \E i \in 1..Len(x.v) : Mentions(x.v[i], text)
      [] x.t = "obj"  -> \E key \in DOMAIN x.v :
                            Contains(key, text) \/ Mentions(x.v[key], text)
      [] OTHER        -> FALSE

(* C8: an envelope with jsonrpc "2.0" whose method is absent or null is    *)
(* answered with InvalidRequest (-32600), unless some key or some string   *)
(* value of the envelope contains "initialized": then it is answered with  *)
(* the empty result {} and the envelope's id (null when absent), with and  *)
(* without an `id` key.                                                    *)
C8_MissingMethodAndInitializedShim ==
    (Responded /\ EnvelopePosted /\ VersionIsTwo /\ Field("method") = JNull)
        => /\ response.status = StatusOk
           /\ response.body.data.id = Field("id")
           /\ IF Mentions(request, "initialized")
              THEN BodyIsResult /\ response.body.data.result = Obj(<<>>)
              ELSE BodyIsError(InvalidRequestCode)

C8_Witness ==
    /\ Responded /\ EnvelopePosted /\ VersionIsTwo
    /\ ~HasKey("method") /\ ~HasKey("id") /\ HasKey("initialized")
    /\ BodyIsResult /\ response.body.data.result = Obj(<<>>)

\* the envelope is a tools/call whose params are a mapping
ToolCallPosted ==
    /\ EnvelopePosted /\ VersionIsTwo /\ MethodIs("tools/call")
    /\ HasKey("params") /\ request.v["params"].t = "obj"

ToolNameGiven == "name" \in DOMAIN request.v["params"].v

ToolName == request.v["params"].v["name"]

ToolArguments ==
    IF "arguments" \in DOMAIN request.v["params"].v
    THEN request.v["params"].v["arguments"]
    ELSE Obj(<<>>)

\* the names of the catalog, read off handle_list_tools
CatalogNames == {HandleListTools[i].name : i \in 1..Len(HandleListTools)}

UnknownToolNamed ==
    /\ ToolNameGiven /\ ToolName.t = "str" /\ ToolName.v # ""
    /\ ToolName.v \notin CatalogNames

(* C9: tools/call without a name in its params is answered with error     *)
(* -32602 and makes no upstream call; a tools/call request with a name     *)
(* that is not in the catalog is answered with a JSON-RPC error, not with  *)
(* the text result that reports the failure of a recognized tool. The code *)
(* breaks the second half: the ValueError for an unknown tool is caught by *)
(* the except clause of handle_call_tool and comes back as a text result.  *)
C9_MissingNameAndUnknownToolAreErrors ==
    (Responded /\ ToolCallPosted)
        => /\ ~ToolNameGiven => (BodyIsError(InvalidParamsCode) /\ NoUpstreamCall)
           /\ (UnknownToolNamed /\ HasKey("id"))
                => (BodyIsRpcEnvelope /\ "error" \in BodyKeys)

ArgumentGiven(key) ==
    ToolArguments.t = "obj" /\ key \in DOMAIN ToolArguments.v

\* the tool of a tools/call failed: the upstream did not answer with JSON
\* (no connection, a non-2xx status, a timeout, a body that is no JSON), or
\* the argument the tool requires is missing
ToolFailed ==
    \/ fetches # <<>> /\ fetches[1].outcome.k \in {"httperror", "other"}
    \/ ToolName = JStr("get_stock_data") /\ ~ArgumentGiven("name")
    \/ ToolName = JStr("get_historical_data") /\ ~ArgumentGiven("stock_name")

\* a tools/call whose name is non-empty has been answered
NamedToolCallAnswered ==
    /\ Responded /\ ToolCallPosted
    /\ ToolNameGiven /\ ToolName.t = "str" /\ ToolName.v # ""

\* result.content is one text item that starts with "Error executing <name>: "
BodyIsToolErrorText ==
    /\ BodyIsResult
    /\ DOMAIN response.body.data.result = {"content"}
    /\ Len(response.body.data.result.content) = 1
    /\ response.body.data.result.content[1].type = "text"
    /\ StartsWith(response.body.data.result.content[1].text,
                  "Error executing " \o ToolName.v \o ": ")

(* C10 as stated: every failed tools/call with a non-empty name is         *)
(* answered with result.content holding the one text item "Error executing *)
(* <name>: ...". An envelope without an `id` key is answered with 202 and  *)
(* no body instead.                                                        *)
C10_Original ==
    (NamedToolCallAnswered /\ ToolFailed)
        => response.status = StatusOk /\ BodyIsToolErrorText

(* C10: a failed tools/call with a non-empty name is never answered with a *)
(* JSON-RPC error nor with status 500: with an `id` key the answer is      *)
(* status 200 and result.content holding exactly one text item that starts *)
(* with "Error executing <name>: "; without an `id` key it is 202 with no  *)
(* body. The exchange ends and the next one can start.                     *)
C10_ToolFailureIsTextResult ==
    (NamedToolCallAnswered /\ ToolFailed)
        => /\ HasKey("id") => (response.status = StatusOk /\ BodyIsToolErrorText)
           /\ ~HasKey("id") => Accepted
           /\ ENABLED Deliver

C10_Witness ==
    /\ NamedToolCallAnswered /\ HasKey("id")
    /\ ToolName = JStr("get_stock_data")
    /\ fetches # <<>> /\ fetches[1].outcome.k = "httperror"
    /\ BodyIsToolErrorText

----------------------------------------------------------------------------
(* C11: the result of tools/list lists every tool of the catalog, and each *)
(* tool object has exactly the keys name, description and inputSchema. An  *)
(* envelope with an id key gets that result; one without an id key gets    *)
(* 202 and no body, so it has no tool objects to inspect.                  *)

ToolKeys == {"name", "description", "inputSchema"}

ListedTools == response.body.data.result.tools

C11_ListedToolsHaveExactlyThreeKeys ==
    (Responded /\ EnvelopePosted /\ VersionIsTwo /\ MethodIs("tools/list")) =>
        /\ HasKey("id") => BodyIsResult
        /\ ~HasKey("id") => Accepted
        /\ BodyIsJson =>
              /\ BodyIsResult
              /\ DOMAIN response.body.data.result = {"tools"}
              /\ Len(ListedTools) = Len(HandleListTools)
              /\ \A i \in 1..Len(ListedTools) :
                    /\ DOMAIN ListedTools[i] = ToolKeys
                    /\ ListedTools[i].name = HandleListTools[i].name
                    /\ ListedTools[i].inputSchema.type = "object"

C11_Witness ==
    /\ Responded /\ EnvelopePosted /\ VersionIsTwo /\ MethodIs("tools/list")
    /\ HasKey("id")
    /\ BodyIsResult
    /\ Len(ListedTools) = 14
    /\ \A i \in 1..Len(ListedTools) : DOMAIN ListedTools[i] = ToolKeys

----------------------------------------------------------------------------
(* C12: every non-empty body answered to a POST /jsonrpc is a JSON-RPC     *)
(* response envelope: jsonrpc "2.0", an id, and exactly one of result and  *)
(* error, the error being an object with an integer code and a message.    *)
(* The handler breaks it for a body that is valid JSON but no object: the  *)
(* outer except clause evaluates data.get("id") on that value, the         *)
(* AttributeError leaves the handler, and cors_middleware answers 500 with *)
(* the body {"error": "<exception text>"}.                                 *)

ErrorObjectWellFormed ==
    "error" \in BodyKeys =>
        /\ DOMAIN response.body.data.error = {"code", "message"}
        /\ response.body.data.error.code \in Int

\* the request is a POST /jsonrpc
JsonRpcPosted == request.t \notin {"absent", "get", "options"}

C12_EveryBodyIsRpcEnvelope ==
    (Responded /\ JsonRpcPosted /\ BodyIsJson) =>
        (BodyIsRpcEnvelope /\ ErrorObjectWellFormed)

----------------------------------------------------------------------------
(* C13: the code of every JSON-RPC error object the handler emits is one   *)
(* of -32700, -32600, -32601, -32602 and -32603.                           *)

ErrorCodes ==
    {ParseErrorCode, InvalidRequestCode, MethodNotFoundCode, InvalidParamsCode,
     InternalErrorCode}

\* the body is an envelope (it has the jsonrpc member) that carries an error
BodyCarriesRpcError ==
    BodyIsJson /\ "jsonrpc" \in BodyKeys /\ "error" \in BodyKeys

C13_ErrorCodesAreTheFiveStandardOnes ==
    (Responded /\ BodyCarriesRpcError) =>
        response.body.data.error.code \in ErrorCodes

C13_Witness ==
    /\ Responded
    /\ request = Unreadable
    /\ BodyCarriesRpcError
    /\ response.body.data.error.code = InternalErrorCode

----------------------------------------------------------------------------
(* C17: a version-2.0 envelope whose method is a string other than         *)
(* tools/list, tools/call, initialize, notifications/initialized and ping  *)
(* is answered HTTP 200 with error -32601 and the id of the request (null  *)
(* when the envelope has no id key), and no upstream request is made.      *)

KnownMethods ==
    {"tools/list", "tools/call", "initialize", "notifications/initialized", "ping"}

UnknownMethodPosted ==
    /\ EnvelopePosted /\ VersionIsTwo
    /\ Field("method").t = "str"
    /\ Field("method").v \notin KnownMethods

C17_UnknownMethodIsMethodNotFound ==
    UnknownMethodPosted =>
        /\ Responded
        /\ response.status = StatusOk
        /\ BodyIsError(MethodNotFoundCode)
        /\ response.body.data.id = Field("id")
        /\ NoUpstreamCall

C17_Witness ==
    /\ UnknownMethodPosted
    /\ Field("method") = JStr("resources/list")
    /\ ~HasKey("id")
    /\ Field("params").t = "obj"
    /\ Responded
    /\ BodyIsError(MethodNotFoundCode)
    /\ response.body.data.error.message = "Method not found: resources/list"

----------------------------------------------------------------------------
(* C16: a version-2.0 initialize request is answered with a result, never  *)
(* with an error, whatever its params and params.clientInfo are (absent,   *)
(* null, a mapping, or any other type). The handler breaks it when params  *)
(* or clientInfo is present and no mapping: params.get / client_info.get   *)
(* raises AttributeError and the answer is error -32603.                   *)

InitializePosted == EnvelopePosted /\ VersionIsTwo /\ MethodIs("initialize")

C16_InitializeNeverFails ==
    (Responded /\ InitializePosted) =>
        /\ ~(BodyIsJson /\ "error" \in BodyKeys)
        /\ HasKey("id") => (BodyIsResult /\ response.status = StatusOk)

----------------------------------------------------------------------------
(* C18: every response carries Access-Control-Allow-Origin: * and the      *)
(* Access-Control-Allow-Methods and Access-Control-Allow-Headers headers:  *)
(* results, errors, 202, 400 and 500 answers of POST /jsonrpc, the answers *)
(* of GET /health, /info and /, the 500 of an unrouted request, and the    *)
(* answer to OPTIONS. An OPTIONS request is answered 200 with an empty     *)
(* body whatever its path and body are, without the handler being run.     *)

CorsHeadersPresent ==
    /\ {"Access-Control-Allow-Origin", "Access-Control-Allow-Methods",
         "Access-Control-Allow-Headers"} \subseteq DOMAIN response.headers
    /\ response.headers["Access-Control-Allow-Origin"] = "*"
    /\ response.headers["Access-Control-Allow-Methods"] # ""
    /\ response.headers["Access-Control-Allow-Headers"] # ""

C18_EveryResponseCarriesCors ==
    Responded =>
        /\ CorsHeadersPresent
        /\ request.t = "options" =>
              /\ response.status = StatusOk
              /\ BodyIsEmpty
              /\ NoUpstreamCall

C18_Witness ==
    /\ Responded
    /\ request = GetRequest("/health")
    /\ response.status = StatusOk
    /\ response.body.data.status = "healthy"
    /\ CorsHeadersPresent

\* a preflight that carries a malformed body is answered 200, not 400
C18_PreflightReached ==
    /\ Responded
    /\ request = OptionsRequest("/jsonrpc", Malformed)
    /\ response.status = StatusOk /\ BodyIsEmpty /\ CorsHeadersPresent

----------------------------------------------------------------------------
(* C14: no method waits for a handshake, and the response to a request     *)
(* depends on nothing but its own envelope and the outcome of its own      *)
(* upstream request. Whatever was handled before and whatever is in flight *)
(* for the other client: two requests with the same body whose upstream    *)
(* requests had the same outcome get the same response, and tools/list and *)
(* ping are answered with a result while no client has initialized.        *)

\* both exchanges have their Response, for the same body and the same
\* upstream request with the same outcome
SameRequestAnsweredTwice ==
    /\ pc = "responded"
    /\ other.pc = "responded"
    /\ other.request = request
    /\ other.fetches = fetches

C14_ResponseDependsOnOwnRequestOnly ==
    /\ SameRequestAnsweredTwice => other.response = response
    /\ (/\ Responded /\ EnvelopePosted /\ VersionIsTwo /\ HasKey("id")
        /\ (MethodIs("tools/list") \/ MethodIs("ping"))
        /\ logged_client = NoClient) => BodyIsResult

\* tools/list answered for both clients, one of which or a third request
\* has initialized in between or before
C14_Witness ==
    /\ SameRequestAnsweredTwice
    /\ EnvelopePosted /\ MethodIs("tools/list") /\ HasKey("id")
    /\ logged_client.k = "client"
    /\ BodyIsResult
    /\ Len(ListedTools) = Len(HandleListTools)
    /\ other.response = response

----------------------------------------------------------------------------
(* C15: initialize may be called again. A well-formed initialize request   *)
(* handled after another one is answered with a result, the same result as *)
(* the earlier call got, and the client the server has on record (the HTTP *)
(* handler keeps no session object: its record is the "Initializing        *)
(* connection from <name> v<version>" line of its log) is then the client  *)
(* of this later call.                                                     *)

\* a version-2.0 initialize request with an id whose params and clientInfo
\* are absent or mappings
WellFormedInitialize(req) ==
    /\ req.t = "obj"
    /\ {"jsonrpc", "method", "id"} \subseteq DOMAIN req.v
    /\ req.v["jsonrpc"] = JStr("2.0")
    /\ req.v["method"] = JStr("initialize")
    /\ IsDict(PyGet(req, "params", Obj(<<>>)))
    /\ IsDict(PyGet(PyGet(req, "params", Obj(<<>>)), "clientInfo", Obj(<<>>)))

\* the name and version an initialize request gives, "unknown" when it
\* gives none
ClientGiven(req) ==
    LET info == PyGet(PyGet(req, "params", Obj(<<>>)), "clientInfo", Obj(<<>>))
    IN [k |-> "client",
        client_name |->
            IF "name" \in DOMAIN info.v THEN info.v["name"].v ELSE "unknown",
        client_version |->
            IF "version" \in DOMAIN info.v THEN info.v["version"].v ELSE "unknown"]

\* the first client's initialize is handled when an initialize has been
\* handled before
InitializeAgain ==
    /\ logged_client.k = "client"
    /\ pc = "idle"
    /\ pc' = "responded"
    /\ WellFormedInitialize(request')

C15_InitializeAgainTakesLatestClient ==
    /\ [][InitializeAgain =>
              /\ response'.status = StatusOk
              /\ response'.body.kind = "json"
              /\ DOMAIN response'.body.data = {"jsonrpc", "id", "result"}
              /\ logged_client' = ClientGiven(request')]_vars
    /\ []((/\ pc = "responded" /\ WellFormedInitialize(request)
            /\ other.pc = "responded" /\ WellFormedInitialize(other.request))
           => response.body.data.result = other.response.body.data.result)

\* the second client initialized as "unknown", then the first as "dify": both
\* have the same result and the record names dify
C15_Witness ==
    /\ other.pc = "responded" /\ WellFormedInitialize(other.request)
    /\ ClientGiven(other.request).client_name = "unknown"
    /\ pc = "responded" /\ WellFormedInitialize(request)
    /\ ClientGiven(request).client_name = "dify"
    /\ response.body.data.result = other.response.body.data.result
    /\ response.body.data.result.protocolVersion = "2024-11-05"
    /\ logged_client = ClientGiven(request)

----------------------------------------------------------------------------
(* C19: a process that meets a fatal error while it starts (ISE_API_KEY is *)
(* missing, or the transport cannot be opened: the port cannot be bound)   *)
(* exits with a nonzero status, and it has served no request. The HTTP     *)
(* entry point breaks it: main() returns after logging the configuration   *)
(* error and cli_main() only logs the exception of a failed bind, so the   *)
(* process exits with status 0. The stdio entry point exits with 1.        *)

NothingServed ==
    /\ pc = "idle" /\ request = NoRequest /\ response = NoResponse
    /\ other = IdleExchange
    /\ logged_client = NoClient

C19_FatalStartupExitsNonzero ==
    /\ process.fatal # "none" =>
          /\ process.phase = "exited"
          /\ process.exit_status # 0
          /\ NothingServed
    /\ (~process.api_key \/ ~process.transport_ok) =>
          /\ process.phase # "serving"
          /\ NothingServed

\* the part of C19 that the HTTP entry point keeps, and all of it for stdio
C19_FatalStartupServesNothing ==
    /\ process.fatal # "none" =>
          /\ process.phase = "exited"
          /\ process.entry = "stdio" => process.exit_status # 0
          /\ NothingServed
    /\ (~process.api_key \/ ~process.transport_ok) =>
          /\ process.phase # "serving"
          /\ NothingServed

----------------------------------------------------------------------------
(* C20: nothing is retried. An exchange makes at most one upstream request *)
(* whatever its outcome, and a failed upstream request shows in the        *)
(* response to the call that made it and in no other response. As first    *)
(* stated the failure is reported exactly once, in the response to its     *)
(* call; a tools/call without an id key is answered 202 with no body, so   *)
(* its failure is reported nowhere, and the statement is amended to the    *)
(* calls that have an id key.                                              *)

\* the first client's exchange as a record, like the second client's
Own == [pc |-> pc, request |-> request, response |-> response, fetches |-> fetches]

Answered(x) == x.pc = "responded"

\* the upstream request of the exchange failed
UpstreamFailed(x) ==
    Len(x.fetches) > 0 /\ x.fetches[Len(x.fetches)].outcome.k \in {"httperror", "other"}

\* the text of the failure as _make_request raises it
FailureText(x) ==
    LET outcome == x.fetches[Len(x.fetches)].outcome
    IN IF outcome.k = "httperror"
       THEN "API request failed: " \o outcome.message
       ELSE "Unexpected error: " \o outcome.message

\* the texts of the content items of the response of the exchange
ContentTexts(x) ==
    IF /\ x.response.body.kind = "json"
       /\ "result" \in DOMAIN x.response.body.data
       /\ x.request.t = "obj"
       /\ "method" \in DOMAIN x.request.v
       /\ x.request.v["method"] = JStr("tools/call")
    THEN {x.response.body.data.result.content[i].text :
             i \in 1..Len(x.response.body.data.result.content)}
    ELSE {}

MentionsUpstreamFailure(x) ==
    \E text \in ContentTexts(x) :
        Contains(text, "API request failed") \/ Contains(text, "Unexpected error")

\* the response reports the failure of its own upstream request, once
ReportsOwnFailureOnce(x) ==
    /\ x.response.body.kind = "json"
    /\ "result" \in DOMAIN x.response.body.data
    /\ Len(x.response.body.data.result.content) = 1
    /\ \E text \in ContentTexts(x) : Contains(text, FailureText(x))

AtMostOneFetch == Len(fetches) <= 1 /\ Len(other.fetches) <= 1

\* a response mentions an upstream failure only if its own request failed
FailureStaysWithItsCall ==
    \A x \in {Own, other} :
        (Answered(x) /\ ~UpstreamFailed(x)) => ~MentionsUpstreamFailure(x)

C20_Original ==
    /\ AtMostOneFetch
    /\ FailureStaysWithItsCall
    /\ \A x \in {Own, other} :
          (Answered(x) /\ UpstreamFailed(x)) => ReportsOwnFailureOnce(x)

C20_NoRetryAndFailureStaysWithItsCall ==
    /\ AtMostOneFetch
    /\ FailureStaysWithItsCall
    /\ \A x \in {Own, other} :
          (Answered(x) /\ UpstreamFailed(x)) =>
              IF "id" \in DOMAIN x.request.v
              THEN ReportsOwnFailureOnce(x)
              ELSE x.response.status = StatusAccepted
                   /\ x.response.body.kind = "empty"

\* the first client's upstream request failed and is reported to it, while
\* the second client's call, made with the same body, succeeded
C20_Witness ==
    /\ Answered(Own) /\ UpstreamFailed(Own) /\ HasKey("id")
    /\ ReportsOwnFailureOnce(Own)
    /\ Answered(other) /\ other.request = request
    /\ Len(other.fetches) = 1 /\ ~UpstreamFailed(other)
    /\ ~MentionsUpstreamFailure(other)

----------------------------------------------------------------------------
(* C21: a tools/call without an id key is still dispatched: when its name  *)
(* is a tool of handle_call_tool and the arguments the tool reads are      *)
(* there, its upstream request is made, and the answer is 202 with an      *)
(* empty body. As first stated, a failure of that upstream request is      *)
(* visible to the sender as an error; the failure is a text result like    *)
(* any other tool output, so it is suppressed too, and the statement is    *)
(* amended: the answer is 202 and empty whatever the upstream did.         *)

\* a tools/call without an id key that names a tool of handle_call_tool
ToolNotificationPosted ==
    /\ ToolCallPosted /\ ~HasKey("id")
    /\ ToolNameGiven /\ HasBranch(ToolName)

\* every arguments[key] the tool's branch reads is there
ToolArgumentsSuffice ==
    \A i \in 1..Len(ToolBranches[ToolName.v].reads) :
        ArgumentGiven(ToolBranches[ToolName.v].reads[i])

OwnUpstreamFailed ==
    fetches # <<>> /\ fetches[1].outcome.k \in {"httperror", "other"}

C21_Original ==
    ToolNotificationPosted =>
        /\ ToolArgumentsSuffice => Len(fetches) = 1
        /\ Responded =>
              IF OwnUpstreamFailed
              THEN BodyIsJson /\ "error" \in BodyKeys
              ELSE Accepted

C21_ToolNotificationRunsAndIsSilent ==
    ToolNotificationPosted =>
        /\ ToolArgumentsSuffice => Len(fetches) = 1
        /\ ~ToolArgumentsSuffice => NoUpstreamCall
        /\ Responded => Accepted

C21_Witness ==
    /\ ToolNotificationPosted /\ ToolArgumentsSuffice
    /\ ToolName = JStr("get_stock_data")
    /\ Responded
    /\ Len(fetches) = 1 /\ fetches[1].endpoint = "/stock"
    /\ fetches[1].outcome.k = "httperror"
    /\ Accepted

----------------------------------------------------------------------------
(* C22: the text of a successful tools/call is a heading, ":", an empty    *)
(* line, and the payload as JSON indented by two spaces. As first stated   *)
(* the heading is a fixed label of the tool, followed by " for " and the   *)
(* unmodified value of the tool's key argument when it has one. Three      *)
(* tools differ: search_industry and search_mutual_funds put the query in  *)
(* single quotes, and get_historical_stats puts the value of stats, in     *)
(* parentheses, inside its label. The statement is amended by these.       *)

HumanTitle ==
    [ get_stock_data |-> "Stock Data",
      search_industry |-> "Industry Search Results",
      search_mutual_funds |-> "Mutual Fund Search Results",
      get_trending_stocks |-> "Trending Stocks",
      get_52_week_high_low |-> "52 Week High/Low Data",
      get_nse_most_active |-> "NSE Most Active Stocks",
      get_bse_most_active |-> "BSE Most Active Stocks",
      get_mutual_funds |-> "Mutual Funds Data",
      get_price_shockers |-> "Price Shockers",
      get_commodities |-> "Commodity Futures Data",
      get_analyst_recommendations |-> "Analyst Recommendations",
      get_stock_forecasts |-> "Stock Forecasts",
      get_historical_data |-> "Historical Data",
      get_historical_stats |-> "Historical Stats" ]

\* the primary identifying argument of a tool, "" when it has none
KeyArgument ==
    [ get_stock_data |-> "name",
      search_industry |-> "query",
      search_mutual_funds |-> "query",
      get_trending_stocks |-> "",
      get_52_week_high_low |-> "",
      get_nse_most_active |-> "",
      get_bse_most_active |-> "",
      get_mutual_funds |-> "",
      get_price_shockers |-> "",
      get_commodities |-> "",
      get_analyst_recommendations |-> "stock_id",
      get_stock_forecasts |-> "stock_id",
      get_historical_data |-> "stock_name",
      get_historical_stats |-> "stock_name" ]

\* the three payloads as json.dumps(data, indent=2) writes them
PrettyPrinted(payload) ==
    CASE payload = JNull -> "null"
      [] payload = Obj(<< <<"price", JNum("100")>> >>) -> "{\n  \"price\": 100\n}"
      [] OTHER -> "[\n  {\n    \"ticker\": \"TCS\",\n    \"price\": 1\n  }\n]"

\* a tools/call with an id for a tool of the catalog got the upstream's JSON
ToolCallSucceeded ==
    /\ Responded /\ ToolCallPosted /\ HasKey("id")
    /\ ToolNameGiven /\ ToolName.t = "str" /\ ToolName.v \in DOMAIN HumanTitle
    /\ Len(fetches) = 1 /\ fetches[1].outcome.k = "json"

ResultText == response.body.data.result.content[1].text

KeyValue == ToolArguments.v[KeyArgument[ToolName.v]].v

\* the heading as the claim states it
StatedHeading ==
    IF KeyArgument[ToolName.v] = ""
    THEN HumanTitle[ToolName.v]
    ELSE HumanTitle[ToolName.v] \o " for " \o KeyValue

\* the heading with the three tools that differ
AmendedHeading ==
    CASE ToolName.v \in {"search_industry", "search_mutual_funds"} ->
           HumanTitle[ToolName.v] \o " for '" \o KeyValue \o "'"
      [] ToolName.v = "get_historical_stats" ->
           "Historical Stats (" \o ToolArguments.v["stats"].v \o ") for " \o KeyValue
      [] OTHER -> StatedHeading

C22_Original ==
    ToolCallSucceeded =>
        /\ BodyIsResult
        /\ Len(response.body.data.result.content) = 1
        /\ ResultText = StatedHeading \o ":\n\n"
                            \o PrettyPrinted(fetches[1].outcome.data)

C22_ResultTextIsHeadingAndPrettyJson ==
    ToolCallSucceeded =>
        /\ BodyIsResult
        /\ Len(response.body.data.result.content) = 1
        /\ response.body.data.result.content[1].type = "text"
        /\ ResultText = AmendedHeading \o ":\n\n"
                            \o PrettyPrinted(fetches[1].outcome.data)

C22_Witness ==
    /\ ToolCallSucceeded
    /\ ToolName = JStr("get_historical_stats")
    /\ ResultText = "Historical Stats (ratios) for hdfc bank:\n\n{\n  \"price\": 100\n}"

----------------------------------------------------------------------------
(* C23: tools/list answers with at least 14 tool descriptors whose names   *)
(* are pairwise distinct, one of them get_stock_data, and with the same    *)
(* list on every call: the lists two clients get are equal whatever was    *)
(* handled before and in between.                                          *)

\* the exchange is a version-2.0 tools/list with an id that has its Response
ListAnswered(x) ==
    /\ x.pc = "responded"
    /\ x.request.t = "obj"
    /\ {"jsonrpc", "method", "id"} \subseteq DOMAIN x.request.v
    /\ x.request.v["jsonrpc"] = JStr("2.0")
    /\ x.request.v["method"] = JStr("tools/list")

ToolsOf(x) == x.response.body.data.result.tools

C23_CatalogIsFixedAndDistinct ==
    /\ \A x \in {Own, other} :
          ListAnswered(x) =>
              /\ x.response.body.kind = "json"
              /\ "result" \in DOMAIN x.response.body.data
              /\ Len(ToolsOf(x)) >= 14
              /\ \A i, j \in 1..Len(ToolsOf(x)) :
                    i # j => ToolsOf(x)[i].name # ToolsOf(x)[j].name
              /\ \E i \in 1..Len(ToolsOf(x)) : ToolsOf(x)[i].name = "get_stock_data"
    /\ (ListAnswered(Own) /\ ListAnswered(other)) => ToolsOf(Own) = ToolsOf(other)

\* both clients have their list: the same 14 distinct names
C23_Witness ==
    /\ ListAnswered(Own) /\ ListAnswered(other)
    /\ ToolsOf(Own) = ToolsOf(other)
    /\ Cardinality({ToolsOf(Own)[i].name : i \in 1..Len(ToolsOf(Own))}) = 14
    /\ ToolsOf(other)[1].name = "get_stock_data"

----------------------------------------------------------------------------
(* C24: the stdio server and the HTTP server have the same tool table and  *)
(* the same call logic. For every tools/call the HTTP server handles, the  *)
(* stdio server's handle_call_tool asks the upstream for the same endpoint *)
(* with the same parameters, or raises before asking as the HTTP server    *)
(* does, and returns the content the HTTP server sends; the two            *)
(* handle_list_tools return the same descriptors in the same order.        *)

\* a tools/call whose name is a non-empty string: handle_call_tool is called
CallToolReached ==
    ToolCallPosted /\ ToolNameGiven /\ ToolName.t = "str" /\ ToolName.v # ""

C24_StdioAndHttpAgree ==
    /\ StdioHandleListTools = HandleListTools
    /\ CallToolReached =>
          LET start == StdioCallToolStart(ToolName, ToolArguments)
          IN /\ start.k = "fetch" =>
                   /\ Len(fetches) = 1
                   /\ fetches[1].endpoint = start.endpoint
                   /\ fetches[1].params = start.params
             /\ start.k = "raise" =>
                   /\ NoUpstreamCall
                   /\ (Responded /\ HasKey("id")) =>
                         /\ BodyIsResult
                         /\ response.body.data.result.content
                                = StdioToolErrorContent(ToolName, start.message)
             /\ (Responded /\ HasKey("id") /\ Len(fetches) = 1) =>
                   /\ BodyIsResult
                   /\ response.body.data.result.content
                          = StdioCallToolFinish(ToolName, ToolArguments,
                                                fetches[1].outcome)

\* get_historical_data with its optional period: the same request, the same
\* text
C24_Witness ==
    /\ CallToolReached /\ Responded /\ HasKey("id")
    /\ ToolName = JStr("get_historical_data")
    /\ ArgumentGiven("period")
    /\ Len(fetches) = 1
    /\ fetches[1].endpoint = "/historical_data"
    /\ DOMAIN fetches[1].params = {"stock_name", "period", "filter"}
    /\ fetches[1].outcome.k = "json"
    /\ response.body.data.result.content
          = StdioCallToolFinish(ToolName, ToolArguments, fetches[1].outcome)

----------------------------------------------------------------------------
(* C25: however either entry point ends (configuration error, the          *)
(* transport cannot be opened, Ctrl-C, an exception of the running server, *)
(* the normal end), the upstream client ise_client has been closed, and    *)
(* the stdio server has closed its stdio channel. The HTTP entry point     *)
(* breaks it on both fatal startup errors: they leave main() before its    *)
(* try/finally, so ise_client.close() is never called.                     *)

Exited == process.phase = "exited"

C25_EveryExitReleasesResources ==
    Exited => (~process.client_open /\ ~process.channel_open)

\* the part of C25 the code keeps: the stdio entry point on every exit, the
\* HTTP entry point when it ends after it has served
C25_ReleasedExceptHttpStartup ==
    Exited =>
        /\ ~process.channel_open
        /\ (process.entry = "stdio" \/ process.fatal = "none") => ~process.client_open

----------------------------------------------------------------------------
(* C26: an exception raised inside the dispatch block of a recognized      *)
(* method (params null or no mapping, for tools/call and initialize) is    *)
(* answered HTTP 200 with error -32603 and the id of the request; status   *)
(* 500 is answered only when the exception was raised outside the dispatch *)
(* block (the body could not be read, or is no JSON object); every status  *)
(* is one of 200, 202, 400 and 500.                                        *)

\* a version-2.0 tools/call or initialize whose params are present and no
\* mapping, or an initialize whose clientInfo is present and no mapping
DispatchRaises ==
    /\ EnvelopePosted /\ VersionIsTwo
    /\ (MethodIs("tools/call") \/ MethodIs("initialize"))
    /\ HasKey("params")
    /\ \/ request.v["params"].t # "obj"
       \/ /\ MethodIs("initialize")
          /\ "clientInfo" \in DOMAIN request.v["params"].v
          /\ request.v["params"].v["clientInfo"].t # "obj"

C26_DispatchExceptionIsInternalError200 ==
    Responded =>
        /\ response.status \in {StatusOk, StatusAccepted, StatusBadRequest,
                                 StatusServerError}
        /\ DispatchRaises =>
              /\ response.status = StatusOk
              /\ BodyIsError(InternalErrorCode)
              /\ response.body.data.id = Field("id")
        /\ response.status = StatusServerError =>
              (JsonRpcPosted /\ ~EnvelopePosted) \/ request.t = "get"

C26_Witness ==
    /\ Responded /\ DispatchRaises
    /\ MethodIs("tools/call")
    /\ Field("params") = JList(<<>>)
    /\ Field("id") = JNum("0")
    /\ response.status = StatusOk
    /\ BodyIsError(InternalErrorCode)
    /\ response.body.data.id = JNum("0")
    /\ response.body.data.error.message
          = "Internal error: 'list' object has no attribute 'get'"

----------------------------------------------------------------------------
(* C27: the catalog and the dispatch agree. Every name handle_list_tools   *)
(* lists is handled by a branch of handle_call_tool, so a call of a listed *)
(* name is never answered "Unknown tool", and every name a branch handles  *)
(* is listed; a call of a listed tool that carries every argument the      *)
(* tool's schema requires makes exactly one upstream request.              *)

ListedNames == {HandleListTools[i].name : i \in 1..Len(HandleListTools)}

HandledNames == DOMAIN ToolBranches

\* the required list of the inputSchema of a listed tool
RequiredOf(name) ==
    LET i == CHOOSE j \in 1..Len(HandleListTools) : HandleListTools[j].name = name
    IN HandleListTools[i].inputSchema.required

RequiredGiven ==
    \A i \in 1..Len(RequiredOf(ToolName.v)) :
        ArgumentGiven(RequiredOf(ToolName.v)[i])

UnknownToolContent ==
    ToolErrorContent(ToolName, "Unknown tool: " \o ToolName.v)

C27_CatalogAndDispatchAgree ==
    /\ ListedNames = HandledNames
    /\ CallToolReached =>
          /\ (ToolName.v \in ListedNames /\ RequiredGiven) => Len(fetches) = 1
          /\ (Responded /\ HasKey("id")) =>
                /\ BodyIsResult
                /\ (response.body.data.result.content = UnknownToolContent)
                      <=> ToolName.v \notin ListedNames

\* get_commodities, which requires nothing, called without arguments
C27_Witness ==
    /\ CallToolReached /\ Responded /\ HasKey("id")
    /\ ToolName = JStr("get_commodities")
    /\ ToolArguments = Obj(<<>>)
    /\ Len(fetches) = 1 /\ fetches[1].endpoint = "/commodities"
    /\ fetches[1].outcome.k = "json"
    /\ BodyIsResult
    /\ response.body.data.result.content # UnknownToolContent

----------------------------------------------------------------------------
(* C28: the connected flag of a SimpleMCPClient is true exactly when the   *)
(* most recent connect() returned True and close() has not been called     *)
(* since; while the flag is false, list_tools() and call_tool() raise      *)
(* "Not connected" and send no request. connect() sets the flag when it    *)
(* succeeds and leaves it alone when it fails, so a failed connect() after *)
(* a successful one leaves the flag true: the first half does not hold.    *)

LastConnectStands == simple.last_connect = "True" /\ ~simple.closed_since

C28_ConnectedIffLastConnectSucceeded ==
    /\ simple.connected <=> LastConnectStands
    /\ (simple.op \in {"list_tools", "call_tool"} /\ ~simple.connected) =>
          simple.raised = NotConnectedMessage

\* what does hold of the flag: it is false after close() and before the
\* first successful connect(), and true once connect() returned True
C28_FlagFollowsCloseAndSuccess ==
    /\ LastConnectStands => simple.connected
    /\ (simple.closed_since \/ simple.last_connect = "never") => ~simple.connected
    /\ simple.client_closed => ~simple.connected

\* a call on a client whose flag is false raises and sends nothing
C28_NotConnectedSendsNothing ==
    [][(simple'.op \in {"list_tools", "call_tool"} /\ ~simple.connected) =>
          /\ simple'.raised = NotConnectedMessage
          /\ simple'.request_id = simple.request_id]_vars

\* the flag is true although the last connect() returned False
C28_StaleFlag ==
    /\ simple.connected
    /\ simple.last_connect = "False"
    /\ simple.op = "call_tool" /\ simple.raised = ""

----------------------------------------------------------------------------
(* C29: when connect() of an MCPClient with the stdio transport returns    *)
(* True, the stdio channel _connect_stdio opened is still open, so that a  *)
(* following call_tool() works on a live channel. _connect_stdio returns   *)
(* from inside `async with stdio_client(...)`: the channel is closed       *)
(* before connect() has returned.                                          *)

C29_ChannelOpenAfterConnect ==
    /\ mcp.connect_returned = "True" => mcp.channel = "open"
    /\ (mcp.op = "call_tool" /\ mcp.connect_returned = "True") =>
          mcp.called_on = "open"

\* what holds instead: between two calls of the client no channel is open
C29_ChannelNeverOutlivesConnect ==
    /\ mcp.channel # "open"
    /\ mcp.session <=> mcp.channel = "closed"
    /\ mcp.op = "call_tool" =>
          mcp.called_on = (IF mcp.session THEN "closed" ELSE "none")

\* call_tool after a connect() that returned True: the session's streams
\* are closed
C29_CallOnClosedChannel ==
    /\ mcp.connect_returned = "True"
    /\ mcp.op = "call_tool" /\ mcp.raised = ""
    /\ mcp.called_on = "closed"

----------------------------------------------------------------------------
(* C30: after a series of add_client() calls followed by close_all(),      *)
(* every client for which add_client() returned True has been closed and   *)
(* the registry is empty; a client whose connect() failed is never         *)
(* registered. The registry is keyed by the name of the configuration: a   *)
(* second add_client() with the same name replaces the first client, which *)
(* close_all() then never closes.                                          *)

Made == 1..Len(manager.made)

RegisteredClients == {manager.clients[n] : n \in DOMAIN manager.clients}

C30_CloseAllClosesEveryAddedClient ==
    /\ \A i \in RegisteredClients : manager.made[i].returned
    /\ manager.last = "close_all" =>
          /\ manager.clients = <<>>
          /\ \A i \in Made :
                manager.made[i].returned => manager.made[i].close_called

\* a later client with the same name took the place of client i
Replaced(i) ==
    \E j \in Made :
        /\ j > i
        /\ manager.made[j].returned
        /\ manager.made[j].name = manager.made[i].name

\* what holds instead: close_all() closes the clients that were not
\* replaced, and the http handle of a replaced client stays open
C30_CloseAllClosesTheRegistered ==
    /\ \A i \in RegisteredClients : manager.made[i].returned
    /\ manager.last = "close_all" =>
          /\ manager.clients = <<>>
          /\ \A i \in Made :
                (manager.made[i].returned /\ ~Replaced(i)) =>
                    /\ manager.made[i].close_called
                    /\ manager.made[i].handle = "closed"

\* two http clients added under one name, then close_all(): the first is
\* left open
C30_ReplacedClientLeftOpen ==
    /\ manager.last = "close_all"
    /\ Len(manager.made) = 2
    /\ manager.made[1].returned /\ manager.made[2].returned
    /\ manager.made[1].name = manager.made[2].name
    /\ manager.made[1].handle = "open" /\ ~manager.made[1].close_called
    /\ manager.made[2].handle = "closed"

====
